---- MODULE Spec2Model ----
(***************************************************************************)
(* Model of the single-node execution core of MobilityNebula:              *)
(*   - the Sequencer: SequencePhysicalOperator (open / setup / terminate)  *)
(*     driving a SequenceOperatorHandler shared by the worker threads;     *)
(*   - the Compiled Pipeline Stage: CompiledExecutablePipelineStage        *)
(*     (start / compilePipeline / execute / stop).                         *)
(*   - the trajectory aggregate, the TCP source and the CSV replay server; *)
(*   - the MEOS physical functions and their registration;                 *)
(*   - the MetricsRegistry and its latency histogram;                      *)
(*   - the MEOS wrapper's initialization and parsing calls;                *)
(*   - the PrintSink's metrics.                                            *)
(* Each component has its own variables, actions and specification.        *)
(* The SequenceOperatorHandler class itself is not part of the sources at  *)
(* hand (only its caller is); its operations are modelled from the         *)
(* Sequencer contract of the specification, section 4.1.                   *)
(***************************************************************************)
EXTENDS Integers, Sequences, FiniteSets, TLC

(***************************************************************************)
(* Bounds of the model.                                                    *)
(***************************************************************************)
\* sequence numbers run over 0..MaxSeq
MaxSeq == 3

\* configured limit of the sequence table (specification 4.1 / 7, backlog overflow)
MaxBacklog == 2

Seqs == 0..MaxSeq
Contents == {"a", "b"}
Threads == {"w1", "w2"}

\* a record buffer, reduced to its sequence number and its payload
Buffers == [seq : Seqs, content : Contents]

\* nullptr / std::nullopt
None == [seq |-> -1, content |-> "none"]

VARIABLES
    \* ---- SequenceOperatorHandler (the sequence table)
    hstate,          \* handler lifecycle: "constructed", "started", "stopped"
    nextSeq,         \* expected-next sequence number
    held,            \* buffers withheld pending in-order delivery
    aborted,         \* a sequencing integrity violation aborted the pipeline
    \* ---- downstream of the sequence operator
    released,        \* buffers handed downstream, in the order handed
    scanState,       \* the scan child: "new", "setup", "terminated"
    \* ---- one SequencePhysicalOperator::open call frame per worker thread
    pc,              \* "idle", "scanOpen", "scanClose", "mark", "ret"
    sub,             \* recordBuffer: the buffer this call submitted
    cur,             \* buffer: the buffer the handler handed out last
    signal,          \* what the handler reported for the submission
    \* ---- history
    taken,           \* the sequence numbers submitted and not refused
    resubmitted,     \* some sequence number was submitted again after it was taken
    \* ---- CompiledExecutablePipelineStage
    stage,           \* driver position: "constructed", "started", "startFailed", "stopped"
    compiledPipelineFunction, \* "null" or "routine"
    handlersStarted, \* setup hooks run so far, in order
    events,          \* lifecycle events of the stage, in order
    startError,      \* the exception start() raised, or NoError
    wpc,             \* per worker: "idle", "routine", "returned", "raised"
    wbuf,            \* per worker: the input buffer of its execute call
    werr,            \* per worker: the exception its execute call raised, or NoError
    wthrown,         \* per worker: the cause the routine threw in this call, or "none"
    counters,        \* MetricsRegistry counters of this pipeline
    execCount        \* completed execute calls

\* TemporalSequenceAggregationPhysicalFunction over its aggregation states
VARIABLES
    aggStatus,       \* per state region: "raw", "live" (after reset), "destroyed"
    pagedVector,     \* per state region: the PagedVector, a sequence of pages of records
    lowered,         \* per state region: what the last lower returned, or NoResult
    lifted,          \* history: the records lift wrote into the region since reset
    origin,          \* history: the records lifted into the region or merged into it
    lastCombine      \* <<target, source>> of the last combine

\* TCPSource and its peers
VARIABLES
    mode,                \* "server" or "client" (configuration)
    flushIntervalInMs,   \* 0: no flush interval (configuration)
    tcpPc,               \* where the source is: "unconfigured", "constructed", "idle", inside open or fillTupleBuffer
    listenfd,            \* the listening socket: "open" or "closed"
    sockfd,              \* the peer the connection socket is connected to, or NoFd
    acceptedConnections,
    numReceivedBytes,    \* of the current fillTupleBuffer call
    tupleBuffer,         \* the bytes written to the buffer of the current call
    lastReturn,          \* what the last fillTupleBuffer call returned, or NoReturn
    callEof,             \* history: peers on which the current call read end-of-file with no byte received
    thrown,              \* the exception the last call raised, or "none"
    conn,                \* per peer: "none", "queued", "accepted", "closed", "refused"
    peer,                \* per peer: its end is "open", "closed" or "reset"
    sent,                \* per peer: bytes sent
    rcvd,                \* per peer: bytes the source has read
    peerEndpoint,        \* the peer the source names as connected, or NoEndpoint (empty)
    errno                \* the error of the last system call that failed, or "none"

\* iter_filtered_csv_lines of the CSV replay server
VARIABLES
    csvPc,            \* "unstarted", "pass" (inside the while loop), "done"
    csvFile,          \* the rows of the CSV file
    loop,
    order_scope,
    skip_header,
    last_ts_global,
    last_ts_by_key,   \* NoDict when no key column is configured
    total_forwarded,
    total_filtered,
    pos,              \* the next row the reader returns
    first,
    passes,           \* history: the pass over the file that is running
    passFwd,          \* history: the rows (by position) forwarded in this pass
    firstFwd,         \* history: the rows forwarded in the first pass
    fwdMax,           \* history: the largest number among the forwarded timestamps
    fwdMaxByKey       \* history: the same per key

\* the MEOS physical functions, their registration and the operator handler lookup
VARIABLES
    fnPc,             \* "idle", "returned": TemporalIntersectsPhysicalFunction::execute
    fnArgs,           \* the longitude, latitude and timestamp of the last record evaluated
    fnRaised,         \* whether the body of the try block raised in the last call
    fnResult,         \* what the last call returned
    registered,       \* what the last registration returned: a function object or NoFunction
    registration,     \* the name and the child count of the last registration
    handlerCalls,     \* history: the kinds of handler on which getNextBuffer was called
    handlerArg,       \* the handler the context handed to the last lookup
    procAborted       \* "" while the process runs, else where a PRECONDITION ended it

\* MetricsRegistry and its FixedLatencyHistogram, called by several threads
VARIABLES
    mtx,              \* MetricsRegistry::mtx: the thread holding it, or NoOwner
    regCounters,      \* MetricsRegistry::counters
    hmtx,             \* FixedLatencyHistogram::mtx: the thread holding it, or NoOwner
    counts,           \* FixedLatencyHistogram::counts
    total,            \* FixedLatencyHistogram::total
    mpc,              \* per thread: where it is in its call, "idle" between calls
    marg,             \* per thread: delta of incCounter / value of observeLatencyMs, 0 between calls
    mtmp,             \* per thread: the counter value read by counters[name] += delta, 0 between calls
    out,              \* per thread: the map snapshot is building
    calls,            \* history: calls made so far
    tuplesExecuted,   \* history: sum of the tuple counts of the buffers executed
    valuesObserved    \* history: sum of the values of the completed observeLatencyMs calls

\* the MEOS wrapper: process-wide initialization and the parsing functions
VARIABLES
    meos_initialized,    \* static bool
    meos_init_mutex,     \* the thread that holds it, or NoOwner
    meos_parse_mutex,    \* the thread that holds it, or NoOwner
    meosLibrary,         \* "uninitialized", "initializing" (inside meos_initialize), "initialized"
    initializeCalls,     \* history: calls of meos_initialize
    atexitCalls,         \* history: registrations of cleanupMeos
    wrapPc,              \* per thread: where it is in the wrapper, "idle" outside
    wrapOp,              \* per thread: the wrapper function called
    wrapArg,             \* per thread: the string passed
    site,                \* per thread: the parsing call it is at (source line), or NoSite
    ensured,             \* history, per thread: an ensureMeosInitialized call of it has returned
    wrapCalls            \* history: wrapper calls made

\* PrintSink
VARIABLES
    sinkCounters,        \* the counters of the MetricsRegistry the sink writes
    outputStream,        \* the formatted buffers written to the output, in order
    observed,            \* history: the latency the last execute passed to observeLatencyMs, or NoLatency
    lastBuffer,          \* history: the buffer of the last execute
    lastNow,             \* history: the clock reading of the last execute
    sinkCalls            \* history: execute calls made

seqVars == <<hstate, nextSeq, held, aborted, released, scanState, pc, sub, cur, signal, taken, resubmitted>>
stageVars == <<stage, compiledPipelineFunction, handlersStarted, events, startError,
               wpc, wbuf, werr, wthrown, counters, execCount>>
aggVars == <<aggStatus, pagedVector, lowered, lifted, origin, lastCombine>>
tcpVars == <<mode, flushIntervalInMs, tcpPc, listenfd, sockfd, acceptedConnections,
             numReceivedBytes, tupleBuffer, lastReturn, callEof, thrown, conn, peer, sent, rcvd,
             peerEndpoint, errno>>
csvVars == <<csvPc, csvFile, loop, order_scope, skip_header, last_ts_global, last_ts_by_key,
             total_forwarded, total_filtered, pos, first, passes, passFwd, firstFwd,
             fwdMax, fwdMaxByKey>>
fnVars == <<fnPc, fnArgs, fnRaised, fnResult, registered, registration,
            handlerCalls, handlerArg, procAborted>>
metVars == <<mtx, regCounters, hmtx, counts, total, mpc, marg, mtmp, out, calls,
             tuplesExecuted, valuesObserved>>
wrapVars == <<meos_initialized, meos_init_mutex, meos_parse_mutex, meosLibrary, initializeCalls,
              atexitCalls, wrapPc, wrapOp, wrapArg, site, ensured, wrapCalls>>
sinkVars == <<sinkCounters, outputStream, observed, lastBuffer, lastNow, sinkCalls>>
vars == <<seqVars, stageVars, aggVars, tcpVars, csvVars, fnVars, metVars, wrapVars, sinkVars>>

\* what the actions of one component leave alone
notSeqVars == <<stageVars, aggVars, tcpVars, csvVars, fnVars, metVars, wrapVars, sinkVars>>
notStageVars == <<seqVars, aggVars, tcpVars, csvVars, fnVars, metVars, wrapVars, sinkVars>>
notAggVars == <<seqVars, stageVars, tcpVars, csvVars, fnVars, metVars, wrapVars, sinkVars>>
notTcpVars == <<seqVars, stageVars, aggVars, csvVars, fnVars, metVars, wrapVars, sinkVars>>
notCsvVars == <<seqVars, stageVars, aggVars, tcpVars, fnVars, metVars, wrapVars, sinkVars>>
notFnVars == <<seqVars, stageVars, aggVars, tcpVars, csvVars, metVars, wrapVars, sinkVars>>
notMetVars == <<seqVars, stageVars, aggVars, tcpVars, csvVars, fnVars, wrapVars, sinkVars>>
notWrapVars == <<seqVars, stageVars, aggVars, tcpVars, csvVars, fnVars, metVars, sinkVars>>
notSinkVars == <<seqVars, stageVars, aggVars, tcpVars, csvVars, fnVars, metVars, wrapVars>>

(***************************************************************************)
(* Helpers on the sequence table.                                          *)
(***************************************************************************)
heldSeqs == {h.seq : h \in held}

RECURSIVE Ascending(_)
\* the buffers of S as a sequence in ascending sequence-number order
Ascending(S) ==
    IF S = {} THEN <<>>
    ELSE LET m == CHOOSE x \in S : \A y \in S : x.seq <= y.seq
         IN <<m>> \o Ascending(S \ {m})

SeqNumbers(q) == [i \in DOMAIN q |-> q[i].seq]

(***************************************************************************)
(* SequenceOperatorHandler, from the Sequencer contract (submit / drain).  *)
(* Every handler call is atomic: the handler state is protected by a       *)
(* handler-internal lock (section 5).                                      *)
(***************************************************************************)
\* variant of getNextBuffer that silently replaces a held buffer on a collision
getNextBufferOverwrite(b) ==
    IF b.seq < nextSeq
    THEN [out |-> None, signal |-> "dropped", held |-> held]
    ELSE IF b.seq = nextSeq
    THEN [out |-> b, signal |-> "released", held |-> held]
    ELSE IF b.seq \in heldSeqs
    THEN [out |-> None, signal |-> "held", held |-> {h \in held : h.seq # b.seq} \cup {b}]
    ELSE IF Cardinality(held) >= MaxBacklog
    THEN [out |-> None, signal |-> "backpressure", held |-> held]
    ELSE [out |-> None, signal |-> "held", held |-> held \cup {b}]

\* variant of getNextBuffer that never refuses a buffer
getNextBufferUnbounded(b) ==
    IF b.seq < nextSeq
    THEN [out |-> None, signal |-> "dropped", held |-> held]
    ELSE IF b.seq = nextSeq
    THEN [out |-> b, signal |-> "released", held |-> held]
    ELSE IF b \in held
    THEN [out |-> None, signal |-> "dropped", held |-> held]
    ELSE IF b.seq \in heldSeqs
    THEN [out |-> None, signal |-> "collision", held |-> held]
    ELSE [out |-> None, signal |-> "held", held |-> held \cup {b}]

\* submit: the buffer itself when it is the expected one; otherwise it is held,
\* dropped (late arrival or re-delivery), refused (backlog limit) or a collision
getNextBuffer(b) ==
    IF b.seq < nextSeq
    THEN [out |-> None, signal |-> "dropped", held |-> held]
    ELSE IF b.seq = nextSeq
    THEN [out |-> b, signal |-> "released", held |-> held]
    ELSE IF b \in held
    THEN [out |-> None, signal |-> "dropped", held |-> held]
    ELSE IF b.seq \in heldSeqs
    THEN [out |-> None, signal |-> "collision", held |-> held]
    ELSE IF Cardinality(held) >= MaxBacklog
    THEN [out |-> None, signal |-> "backpressure", held |-> held]
    ELSE [out |-> None, signal |-> "held", held |-> held \cup {b}]

\* the expected-next counter advances past b; the buffer now expected is handed
\* out when it is held
markBufferAsDone(b) ==
    LET n == b.seq + 1
        hit == {h \in held : h.seq = n}
    IN [next |-> n,
        out |-> IF hit = {} THEN None ELSE CHOOSE h \in hit : TRUE,
        held |-> held \ hit]

\* stop: a graceful stop drains the table in ascending order, any other stop
\* leaves it as it is
handlerStop(type) ==
    IF type = "Graceful"
    THEN [released |-> released \o Ascending(held), held |-> {}]
    ELSE [released |-> released, held |-> held]

(***************************************************************************)
(* SequencePhysicalOperator.                                               *)
(***************************************************************************)
\* value_or(input): a refused or held buffer is processed all the same
HandedOutOrInput(r, input) == IF r = None THEN input ELSE r

\* .value_or(nullptr) of the handler's optional
HandedOut(r, input) == r

\* if (buffer) in place of while (buffer)
LoopOnce(buffer) == FALSE

\* while (buffer)
LoopAgain(buffer) == buffer # None

\* markBufferAsDone is given the call's input buffer instead of the one just scanned
MarkedInput(buffer, input) == input

\* the argument of markBufferAsDone: the buffer the scan child has just closed
MarkedBuffer(buffer, input) == buffer

\* the scan child is given the call's input buffer each time round the loop
nextBufferIsInput(buffer, input) == input

\* RecordBuffer nextBufferInSequence{buffer}: what the scan child is opened
\* and closed on
nextBufferInSequence(buffer, input) == buffer

\* stop(QueryTerminationType::HardStop, ...)
TerminationTypeHard == "HardStop"

\* stop(QueryTerminationType::Graceful, ...)
TerminationType == "Graceful"

\* setup: start the handler, then set up the scan child
SequenceSetup ==
    /\ hstate = "constructed"
    /\ hstate' = "started"
    /\ scanState' = "setup"
    /\ UNCHANGED <<nextSeq, held, aborted, released, pc, sub, cur, signal, taken, resubmitted>>
    /\ UNCHANGED notSeqVars

\* the unique-sequence-number rule of the sources: a number that a worker is
\* processing right now is not delivered a second time
InFlight(s) == \E t \in Threads : pc[t] \in {"scanOpen", "scanClose", "mark"} /\ cur[t].seq = s

\* open, up to the first test of the loop: the submission
SequenceOpen(t, b) ==
    /\ hstate = "started"
    /\ ~aborted
    /\ pc[t] = "idle"
    /\ ~InFlight(b.seq)
    /\ LET r == getNextBuffer(b)
           buffer == HandedOut(r.out, b)
       IN /\ sub' = [sub EXCEPT ![t] = b]
          /\ signal' = [signal EXCEPT ![t] = r.signal]
          /\ held' = r.held
          /\ aborted' = (r.signal = "collision")
          /\ taken' = IF r.signal = "backpressure" THEN taken ELSE taken \cup {b.seq}
          /\ resubmitted' = (resubmitted \/ b.seq \in taken)
          /\ IF r.signal # "collision" /\ buffer # None
             THEN /\ pc' = [pc EXCEPT ![t] = "scanOpen"]
                  /\ cur' = [cur EXCEPT ![t] = buffer]
             ELSE /\ pc' = [pc EXCEPT ![t] = "ret"]
                  /\ cur' = [cur EXCEPT ![t] = None]
    /\ UNCHANGED <<hstate, nextSeq, released, scanState>>
    /\ UNCHANGED notSeqVars

\* scan.open(executionCtx, nextBufferInSequence)
ScanOpen(t) ==
    /\ ~aborted
    /\ pc[t] = "scanOpen"
    /\ released' = Append(released, nextBufferInSequence(cur[t], sub[t]))
    /\ pc' = [pc EXCEPT ![t] = "scanClose"]
    /\ UNCHANGED <<hstate, nextSeq, held, aborted, scanState, sub, cur, signal, taken, resubmitted>>
    /\ UNCHANGED notSeqVars

\* scan.close(executionCtx, nextBufferInSequence)
ScanClose(t) ==
    /\ ~aborted
    /\ pc[t] = "scanClose"
    /\ pc' = [pc EXCEPT ![t] = "mark"]
    /\ UNCHANGED <<hstate, nextSeq, held, aborted, released, scanState, sub, cur, signal, taken, resubmitted>>
    /\ UNCHANGED notSeqVars

\* buffer = markBufferAsDone(buffer), and the test of the loop
MarkDone(t) ==
    /\ ~aborted
    /\ pc[t] = "mark"
    /\ LET r == markBufferAsDone(MarkedBuffer(cur[t], sub[t]))
       IN /\ nextSeq' = r.next
          /\ held' = r.held
          /\ IF LoopAgain(r.out)
             THEN /\ pc' = [pc EXCEPT ![t] = "scanOpen"]
                  /\ cur' = [cur EXCEPT ![t] = r.out]
             ELSE /\ pc' = [pc EXCEPT ![t] = "ret"]
                  /\ cur' = [cur EXCEPT ![t] = None]
    /\ UNCHANGED <<hstate, aborted, released, scanState, sub, signal, taken, resubmitted>>
    /\ UNCHANGED notSeqVars

\* open returns (or, after a collision, is left by the error)
OpenReturn(t) ==
    /\ ~aborted
    /\ pc[t] = "ret"
    /\ pc' = [pc EXCEPT ![t] = "idle"]
    /\ sub' = [sub EXCEPT ![t] = None]
    /\ signal' = [signal EXCEPT ![t] = "none"]
    /\ UNCHANGED <<hstate, nextSeq, held, aborted, released, scanState, cur, taken, resubmitted>>
    /\ UNCHANGED notSeqVars

\* terminate: terminate the scan child, then stop the handler; the stage calls
\* it once every open call has returned
SequenceTerminate ==
    /\ hstate = "started"
    /\ ~aborted
    /\ \A t \in Threads : pc[t] = "idle"
    /\ scanState' = "terminated"
    /\ LET r == handlerStop(TerminationType)
       IN /\ released' = r.released
          /\ held' = r.held
    /\ hstate' = "stopped"
    /\ UNCHANGED <<nextSeq, aborted, pc, sub, cur, signal, taken, resubmitted>>
    /\ UNCHANGED notSeqVars

SeqInit ==
    /\ hstate = "constructed"
    /\ nextSeq = 0
    /\ held = {}
    /\ aborted = FALSE
    /\ released = <<>>
    /\ scanState = "new"
    /\ pc = [t \in Threads |-> "idle"]
    /\ sub = [t \in Threads |-> None]
    /\ cur = [t \in Threads |-> None]
    /\ signal = [t \in Threads |-> "none"]
    /\ taken = {}
    /\ resubmitted = FALSE

(***************************************************************************)
(* CompiledExecutablePipelineStage.                                        *)
(***************************************************************************)
\* cap on the execute calls of one run
MaxExec == 2

\* tuple counts of the input buffers run over 0..MaxTuples
MaxTuples == 1

Causes == {"bad_alloc", "tracing"}
PipelineDescription == "Pipeline(Sequence(Scan))"
NoError == [cause |-> "none", description |-> "none"]

\* creation timestamps: Timestamp::INVALID_VALUE, Timestamp::INITIAL_VALUE, a real one
Stamps == {"invalid", "initial", "valid"}
InputBuffers == [ts : Stamps, tuples : 0..MaxTuples]
NoBuffer == [ts : {"none"}, tuples : {0}]
CounterNames == {"ts_missing_in", "ts_present_in", "in_total"}

\* the scan child is set up a second time
SetupHooksTwice == <<"handler.start", "scan.setup", "scan.setup">>

\* the hooks the root operator's setup runs, in tree order: the sequence
\* operator starts its handler, then sets up its scan child
SetupHooks == <<"handler.start", "scan.setup">>

\* the cause is rethrown without the pipeline's description
compileErrorBare(cause) == [cause |-> cause, description |-> "none"]

\* catch (...) of compilePipeline: the wrapped cause plus
\* "Could not query compile pipeline: <pipeline>"
compileError(cause) == [cause |-> cause, description |-> PipelineDescription]

\* compilePipeline: the registered function, or the error thrown
compilePipeline(outcome) ==
    IF outcome = "ok"
    THEN [fn |-> "routine", error |-> NoError]
    ELSE [fn |-> "null", error |-> compileError(outcome)]

\* execute wraps what the routine throws with the pipeline's description
ExecuteRaiseWrapped(e) == [e EXCEPT !.description = PipelineDescription]

\* execute has no handler around the call of the routine: what the routine
\* throws leaves execute as it is
ExecuteRaise(e) == e

\* start, first statements: bind the handlers and run the root operator's setup
StartSetup ==
    /\ stage = "constructed"
    /\ stage' = "setupDone"
    /\ handlersStarted' = handlersStarted \o SetupHooks
    /\ events' = events \o SetupHooks
    /\ UNCHANGED <<compiledPipelineFunction, startError, wpc, wbuf, werr, wthrown, counters, execCount>>
    /\ UNCHANGED notStageVars

\* start, last statement: compiledPipelineFunction = this->compilePipeline()
StartCompile(outcome) ==
    /\ stage = "setupDone"
    /\ LET r == compilePipeline(outcome)
       IN IF r.error = NoError
          THEN /\ compiledPipelineFunction' = r.fn
               /\ events' = Append(events, "compile")
               /\ stage' = "started"
               /\ UNCHANGED startError
          ELSE /\ startError' = r.error
               /\ events' = Append(events, "compileFailed")
               /\ stage' = "startFailed"
               /\ UNCHANGED compiledPipelineFunction
    /\ UNCHANGED <<handlersStarted, wpc, wbuf, werr, wthrown, counters, execCount>>
    /\ UNCHANGED notStageVars

\* the counters execute increments for an input buffer
ExecuteCounters(c, buf) ==
    LET missing == buf.ts \in {"invalid", "initial"}
        c1 == IF buf.tuples > 0 /\ missing
              THEN [c EXCEPT !["ts_missing_in"] = @ + 1] ELSE c
        c2 == IF buf.tuples > 0 /\ ~missing
              THEN [c1 EXCEPT !["ts_present_in"] = @ + 1] ELSE c1
    IN [c2 EXCEPT !["in_total"] = @ + buf.tuples]

\* execute, up to the call of the compiled routine
ExecuteBegin(w, buf) ==
    /\ stage = "started"
    /\ wpc[w] = "idle"
    /\ execCount + Cardinality({x \in Threads : wpc[x] # "idle"}) < MaxExec
    /\ counters' = ExecuteCounters(counters, buf)
    /\ wbuf' = [wbuf EXCEPT ![w] = buf]
    /\ wpc' = [wpc EXCEPT ![w] = "routine"]
    /\ events' = Append(events, "execute")
    /\ UNCHANGED <<stage, compiledPipelineFunction, handlersStarted, startError, werr, wthrown, execCount>>
    /\ UNCHANGED notStageVars

\* compiledPipelineFunction(...): the routine runs to completion or throws
ExecuteRoutine(w, outcome) ==
    /\ wpc[w] = "routine"
    /\ compiledPipelineFunction = "routine"
    /\ IF outcome = "ok"
       THEN /\ wpc' = [wpc EXCEPT ![w] = "returned"]
            /\ UNCHANGED <<werr, wthrown>>
       ELSE /\ wpc' = [wpc EXCEPT ![w] = "raised"]
            /\ wthrown' = [wthrown EXCEPT ![w] = outcome]
            /\ werr' = [werr EXCEPT ![w] = ExecuteRaise([cause |-> outcome, description |-> "none"])]
    /\ UNCHANGED <<stage, compiledPipelineFunction, handlersStarted, events, startError,
                   wbuf, counters, execCount>>
    /\ UNCHANGED notStageVars

\* execute called on a stage whose routine is still null (before start, during
\* start, or after a failed start): execute has no check, it counts the buffer
\* and reaches the call of the routine all the same
ExecuteBeginNull(w, buf) ==
    /\ compiledPipelineFunction = "null"
    /\ stage \in {"constructed", "setupDone", "startFailed"}
    /\ wpc[w] = "idle"
    /\ execCount + Cardinality({x \in Threads : wpc[x] # "idle"}) < MaxExec
    /\ counters' = ExecuteCounters(counters, buf)
    /\ wbuf' = [wbuf EXCEPT ![w] = buf]
    /\ wpc' = [wpc EXCEPT ![w] = "routine"]
    /\ events' = Append(events, "execute")
    /\ UNCHANGED <<stage, compiledPipelineFunction, handlersStarted, startError, werr, wthrown, execCount>>
    /\ UNCHANGED notStageVars

\* compiledPipelineFunction(...) on the null routine is undefined: the call
\* throws (an empty callable) or the process dies on the null pointer
NullCallOutcomes == {"bad_function_call", "crash"}

ExecuteRoutineNull(w, outcome) ==
    /\ wpc[w] = "routine"
    /\ compiledPipelineFunction = "null"
    /\ stage # "crashed"
    /\ IF outcome = "crash"
       THEN /\ stage' = "crashed"
            /\ UNCHANGED <<wpc, werr, wthrown>>
       ELSE /\ wpc' = [wpc EXCEPT ![w] = "raised"]
            /\ wthrown' = [wthrown EXCEPT ![w] = outcome]
            /\ werr' = [werr EXCEPT ![w] = ExecuteRaise([cause |-> outcome, description |-> "none"])]
            /\ UNCHANGED stage
    /\ UNCHANGED <<compiledPipelineFunction, handlersStarted, events, startError,
                   wbuf, counters, execCount>>
    /\ UNCHANGED notStageVars

\* the caller of execute takes the result (or the exception)
ExecuteDone(w) ==
    /\ wpc[w] \in {"returned", "raised"}
    /\ wpc' = [wpc EXCEPT ![w] = "idle"]
    /\ wbuf' = [wbuf EXCEPT ![w] = CHOOSE b \in NoBuffer : TRUE]
    /\ werr' = [werr EXCEPT ![w] = NoError]
    /\ wthrown' = [wthrown EXCEPT ![w] = "none"]
    /\ execCount' = execCount + 1
    /\ UNCHANGED <<stage, compiledPipelineFunction, handlersStarted, events, startError, counters>>
    /\ UNCHANGED notStageVars

\* stop: the root operator's terminate, once no execute call is in flight
StageStop ==
    /\ stage = "started"
    /\ \A w \in Threads : wpc[w] = "idle"
    /\ stage' = "stopped"
    /\ events' = Append(events, "stop")
    /\ UNCHANGED <<compiledPipelineFunction, handlersStarted, startError, wpc, wbuf, werr,
                   wthrown, counters, execCount>>
    /\ UNCHANGED notStageVars

StageInit ==
    /\ stage = "constructed"
    /\ compiledPipelineFunction = "null"
    /\ handlersStarted = <<>>
    /\ events = <<>>
    /\ startError = NoError
    /\ wpc = [w \in Threads |-> "idle"]
    /\ wbuf = [w \in Threads |-> CHOOSE b \in NoBuffer : TRUE]
    /\ werr = [w \in Threads |-> NoError]
    /\ wthrown = [w \in Threads |-> "none"]
    /\ counters = [n \in CounterNames |-> 0]
    /\ execCount = 0

StageNext ==
    \/ StartSetup
    \/ \E o \in {"ok"} \cup Causes : StartCompile(o)
    \/ \E w \in Threads, buf \in InputBuffers : ExecuteBegin(w, buf)
    \/ \E w \in Threads, o \in {"ok"} \cup Causes : ExecuteRoutine(w, o)
    \/ \E w \in Threads : ExecuteDone(w)
    \/ StageStop

\* the stage as any caller may use it: execute is not held back until start
\* has returned
StageCallNext ==
    \/ StageNext
    \/ \E w \in Threads, buf \in InputBuffers : ExecuteBeginNull(w, buf)
    \/ \E w \in Threads, o \in NullCallOutcomes : ExecuteRoutineNull(w, o)

(***************************************************************************)
(* TemporalSequenceAggregationPhysicalFunction: the trajectory aggregate.  *)
(* An aggregation state is a PagedVector built in place in a state region; *)
(* a record stands for the (lon, lat, timestamp) triple lift stores.       *)
(***************************************************************************)
MaxRecords == 3
PageCapacity == 2
AggregationStates == {"A", "B", "C"}
NoResult == [text |-> <<"none">>, reads |-> -1]

\* PagedVector: an ordered sequence of pages, each holding up to PageCapacity records
writeRecord(pv, record) ==
    IF pv = <<>> \/ Len(pv[Len(pv)]) >= PageCapacity
    THEN Append(pv, <<record>>)
    ELSE [pv EXCEPT ![Len(pv)] = Append(@, record)]

RECURSIVE getTotalNumberOfEntries(_)
getTotalNumberOfEntries(pv) ==
    IF pv = <<>> THEN 0 ELSE Len(Head(pv)) + getTotalNumberOfEntries(Tail(pv))

\* the records an iteration from begin() to end() visits, in order
RECURSIVE Entries(_)
Entries(pv) ==
    IF pv = <<>> THEN <<>> ELSE Head(pv) \o Entries(Tail(pv))

\* copyFrom: the content of the second paged vector is copied behind the first
copyFrom(vector1, vector2) == vector1 \o vector2

\* sprintf("%lld"): the decimal digits of n
RECURSIVE Digits(_)
Digits(n) ==
    IF n < 10 THEN <<n>> ELSE Digits(n \div 10) \o <<n % 10>>

\* sprintf(buffer, "BINARY(%lld)", totalPoints)
BinaryText(n) == <<"BINARY(">> \o Digits(n) \o <<")">>

\* the literal lower writes for an empty state
EmptySentinelNull == <<"NULL">>
EmptySentinel == <<"BINARY(", 0, ")">>

\* lift: one record holding the three evaluated fields is written to the state
liftNothing(pv, record) == pv
lift(pv, record) == writeRecord(pv, record)

\* combine, as it leaves the first state
combineKeepFirst(vector1, vector2) == vector1
combineOverwrite(vector1, vector2) == vector2
combine(vector1, vector2) == copyFrom(vector1, vector2)

\* combine, as it leaves the second state: the source is const and is copied from
combineSourceEmptied(vector2) == <<>>
combineSource(vector2) == vector2

\* lower's loop: pointCounter is incremented once per record visited
pointCounterPages(pv) == Len(pv)
pointCounter(pv) == Len(Entries(pv))

\* lower: the value returned, and how many records the loop read
lower(pv) ==
    IF getTotalNumberOfEntries(pv) = 0
    THEN [text |-> EmptySentinel, reads |-> 0]
    ELSE [text |-> BinaryText(pointCounter(pv)), reads |-> Len(Entries(pv))]

\* lower, as it leaves the state: the paged vector is only read
lowerConsumed(pv) == <<>>
lowerState(pv) == pv

\* the input records: the k-th record lifted into region s is <<s, k>>
LiftedSoFar ==
    Cardinality(UNION {lifted[s] : s \in AggregationStates})

NextRecord(s) == <<s, Cardinality(lifted[s])>>

\* reset: a PagedVector is constructed in place in the state region
AggReset(s) ==
    /\ aggStatus[s] = "raw"
    /\ aggStatus' = [aggStatus EXCEPT ![s] = "live"]
    /\ pagedVector' = [pagedVector EXCEPT ![s] = <<>>]
    /\ lowered' = [lowered EXCEPT ![s] = NoResult]
    /\ lifted' = [lifted EXCEPT ![s] = {}]
    /\ origin' = [origin EXCEPT ![s] = {}]
    /\ UNCHANGED lastCombine
    /\ UNCHANGED notAggVars

AggLift(s) ==
    /\ aggStatus[s] = "live"
    /\ LiftedSoFar < MaxRecords
    /\ pagedVector' = [pagedVector EXCEPT ![s] = lift(@, NextRecord(s))]
    /\ lifted' = [lifted EXCEPT ![s] = @ \cup {NextRecord(s)}]
    /\ origin' = [origin EXCEPT ![s] = @ \cup {NextRecord(s)}]
    /\ lowered' = [lowered EXCEPT ![s] = NoResult]
    /\ UNCHANGED <<aggStatus, lastCombine>>
    /\ UNCHANGED notAggVars

\* the partial states merged are built from disjoint sets of input records
AggCombine(s1, s2) ==
    /\ s1 # s2
    /\ aggStatus[s1] = "live"
    /\ aggStatus[s2] = "live"
    /\ origin[s1] \cap origin[s2] = {}
    /\ pagedVector' = [pagedVector EXCEPT ![s1] = combine(pagedVector[s1], pagedVector[s2]),
                                          ![s2] = combineSource(pagedVector[s2])]
    /\ origin' = [origin EXCEPT ![s1] = @ \cup origin[s2]]
    /\ lastCombine' = <<s1, s2>>
    /\ lowered' = [lowered EXCEPT ![s1] = NoResult]
    /\ UNCHANGED <<aggStatus, lifted>>
    /\ UNCHANGED notAggVars

AggLower(s) ==
    /\ aggStatus[s] = "live"
    /\ lowered' = [lowered EXCEPT ![s] = lower(pagedVector[s])]
    /\ pagedVector' = [pagedVector EXCEPT ![s] = lowerState(@)]
    /\ UNCHANGED <<aggStatus, lifted, origin, lastCombine>>
    /\ UNCHANGED notAggVars

\* cleanup: the PagedVector's destructor runs on the state region
AggCleanup(s) ==
    /\ aggStatus[s] = "live"
    /\ aggStatus' = [aggStatus EXCEPT ![s] = "destroyed"]
    /\ pagedVector' = [pagedVector EXCEPT ![s] = <<>>]
    /\ origin' = [origin EXCEPT ![s] = {}]
    /\ UNCHANGED <<lowered, lifted, lastCombine>>
    /\ UNCHANGED notAggVars

AggInit ==
    /\ aggStatus = [s \in AggregationStates |-> "raw"]
    /\ pagedVector = [s \in AggregationStates |-> <<>>]
    /\ lowered = [s \in AggregationStates |-> NoResult]
    /\ lifted = [s \in AggregationStates |-> {}]
    /\ origin = [s \in AggregationStates |-> {}]
    /\ lastCombine = <<"none", "none">>

AggNext ==
    \/ \E s \in AggregationStates : AggReset(s)
    \/ \E s \in AggregationStates : AggLift(s)
    \/ \E s1, s2 \in AggregationStates : AggCombine(s1, s2)
    \/ \E s \in AggregationStates : AggLower(s)
    \/ \E s \in AggregationStates : AggCleanup(s)

(***************************************************************************)
(* TCPSource: open, fillTupleBuffer / fillBuffer, awaitClientConnection,   *)
(* close, and the peers on the other side of its sockets.  A peer p sends  *)
(* the bytes <<p, 1>>, <<p, 2>>, ... in this order.                        *)
(***************************************************************************)
MaxPayload == 2
RawTBSize == 2
Peers == {"p1", "p2"}
NoFd == "none"
NoReturn == [n |-> -1, bytes |-> <<>>]
NoEndpoint == ""
\* the errors of accept, connect and read
EINTR == "EINTR"
AcceptErrors == {EINTR, "ECONNABORTED", "EMFILE"}
INVALID_RECEIVED_BUFFER_SIZE == -1
EOF_RECEIVED_BUFFER_SIZE == 0

\* the bytes peer p has sent that the source has not read yet
Available(p) == sent[p] - rcvd[p]

\* the bytes a read of k bytes from peer p delivers
ReadBytes(p, k) == [i \in 1..k |-> <<p, rcvd[p] + i>>]

\* the listening socket of setupServerListener is closed: peers waiting for accept are refused
RefuseQueued == [p \in Peers |-> IF conn[p] = "queued" THEN "refused" ELSE conn[p]]

\* fillBuffer on end-of-file with no byte received: which mode awaits the next client
modeClient == "client"
modeOfSource == mode

\* the constructor takes mode and flush interval from the source descriptor
TcpConstruct(m, f) ==
    /\ tcpPc = "unconfigured"
    /\ mode' = m
    /\ flushIntervalInMs' = f
    /\ tcpPc' = "constructed"
    /\ UNCHANGED <<peerEndpoint, errno>>
    /\ UNCHANGED <<listenfd, sockfd, acceptedConnections, numReceivedBytes, tupleBuffer,
                   lastReturn, callEof, thrown, conn, peer, sent, rcvd>>
    /\ UNCHANGED notTcpVars

\* open: setupServerListener and awaitClientConnection, or openClientConnection
TcpOpen ==
    /\ tcpPc \in {"constructed", "idle"}
    /\ listenfd = "closed"
    /\ sockfd = NoFd
    /\ thrown' = "none"
    /\ peerEndpoint' = NoEndpoint
    /\ UNCHANGED errno
    /\ IF mode = "server"
       THEN /\ listenfd' = "open"
            /\ acceptedConnections' = 0
            /\ tcpPc' = "open_accept"
       ELSE /\ tcpPc' = "open_connect"
            /\ UNCHANGED <<listenfd, acceptedConnections>>
    /\ UNCHANGED <<mode, flushIntervalInMs, sockfd, numReceivedBytes, tupleBuffer, lastReturn,
                   callEof, conn, peer, sent, rcvd>>
    /\ UNCHANGED notTcpVars

\* fillTupleBuffer's handler, catch (const std::exception& e) { throw e; }: the exception
\* thrown is a copy of static type std::exception; the class of the exception caught is lost
throw_e(e) == "std::exception"

\* what the caller of open or fillTupleBuffer receives when the connection attempt throws e
Raised(e) == IF tcpPc \in {"open_accept", "open_connect"} THEN e ELSE throw_e(e)

\* what awaitClientConnection or openClientConnection returns to
AfterConnection == IF tcpPc \in {"open_accept", "open_connect"} THEN "idle" ELSE "read"

\* awaitClientConnection: accept hands over the peer that connected
TcpAccept(p) ==
    /\ tcpPc \in {"open_accept", "entry_accept", "eof_accept"}
    /\ listenfd = "open"
    /\ conn[p] = "queued"
    /\ sockfd' = p
    /\ conn' = [conn EXCEPT ![p] = "accepted"]
    /\ peerEndpoint' = p
    /\ acceptedConnections' = acceptedConnections + 1
    /\ UNCHANGED errno
    /\ tcpPc' = AfterConnection
    /\ UNCHANGED <<mode, flushIntervalInMs, listenfd, numReceivedBytes, tupleBuffer, lastReturn,
                   callEof, thrown, peer, sent, rcvd>>
    /\ UNCHANGED notTcpVars

\* awaitClientConnection: whether the loop calls accept again after the error e
retryAccept(e) == e = EINTR

\* awaitClientConnection: accept fails with the error e; on EINTR the loop calls it
\* again, on any other error the listening socket is closed and CannotOpenSource thrown
TcpAcceptFail(e) ==
    /\ tcpPc \in {"open_accept", "entry_accept", "eof_accept"}
    /\ listenfd = "open"
    /\ errno' = e
    /\ IF retryAccept(e)
       THEN UNCHANGED <<listenfd, conn, thrown, tcpPc, peerEndpoint>>
       ELSE /\ listenfd' = "closed"
            /\ conn' = RefuseQueued
            /\ peerEndpoint' = NoEndpoint
            /\ thrown' = Raised("CannotOpenSource")
            /\ tcpPc' = "idle"
    /\ UNCHANGED <<mode, flushIntervalInMs, sockfd, acceptedConnections, numReceivedBytes,
                   tupleBuffer, lastReturn, callEof, peer, sent, rcvd>>
    /\ UNCHANGED notTcpVars

\* openClientConnection: the connection to the configured host is established or not
TcpConnect(p, ok) ==
    /\ tcpPc \in {"open_connect", "entry_connect"}
    /\ conn[p] = "none"
    /\ IF ok
       THEN /\ sockfd' = p
            /\ conn' = [conn EXCEPT ![p] = "accepted"]
            /\ peerEndpoint' = p
            /\ tcpPc' = AfterConnection
            /\ UNCHANGED <<thrown, errno>>
       ELSE /\ thrown' = Raised("CannotOpenSource")
            /\ peerEndpoint' = NoEndpoint
            /\ errno' = "ECONNREFUSED"
            /\ tcpPc' = "idle"
            /\ UNCHANGED <<sockfd, conn>>
    /\ UNCHANGED <<mode, flushIntervalInMs, listenfd, acceptedConnections, numReceivedBytes,
                   tupleBuffer, lastReturn, callEof, peer, sent, rcvd>>
    /\ UNCHANGED notTcpVars

\* fillTupleBuffer is called: numReceivedBytes = 0 and the first fillBuffer begins
TcpFillBegin ==
    /\ tcpPc = "idle"
    /\ numReceivedBytes' = 0
    /\ tupleBuffer' = <<>>
    /\ lastReturn' = NoReturn
    /\ callEof' = {}
    /\ IF sockfd # NoFd
       THEN tcpPc' = "read" /\ thrown' = "none"
       ELSE IF mode = "server"
            THEN IF listenfd = "closed"
                 THEN tcpPc' = "idle" /\ thrown' = throw_e("CannotOpenSource")
                 ELSE tcpPc' = "entry_accept" /\ thrown' = "none"
            ELSE tcpPc' = "entry_connect" /\ thrown' = "none"
    /\ peerEndpoint' = IF sockfd = NoFd /\ mode = "client" THEN NoEndpoint ELSE peerEndpoint
    /\ UNCHANGED <<mode, flushIntervalInMs, listenfd, sockfd, acceptedConnections,
                   conn, peer, sent, rcvd, errno>>
    /\ UNCHANGED notTcpVars

\* fillBuffer after a failed read: numReceivedBytes = 0, whatever it was
numReceivedBytesKept(received) == received
numReceivedBytesOnError(received) == 0

\* one pass of fillBuffer's loop: read returns r (bytes, 0 at end-of-file, -1 on
\* error); flush tells whether the flush interval is found to have passed
TcpRead(r, flush) ==
    /\ tcpPc = "read"
    /\ sockfd # NoFd
    /\ flush => flushIntervalInMs > 0
    /\ \/ r >= 1 /\ r <= Available(sockfd) /\ r <= RawTBSize - numReceivedBytes
       \/ r = EOF_RECEIVED_BUFFER_SIZE /\ Available(sockfd) = 0 /\ peer[sockfd] = "closed"
       \/ r = INVALID_RECEIVED_BUFFER_SIZE /\ peer[sockfd] = "reset"
    /\ IF r = INVALID_RECEIVED_BUFFER_SIZE
       THEN \* readWasValid = false, numReceivedBytes = 0: fillTupleBuffer returns 0
            /\ numReceivedBytes' = numReceivedBytesOnError(numReceivedBytes)
            /\ lastReturn' = [n |-> numReceivedBytesOnError(numReceivedBytes), bytes |-> <<>>]
            /\ tcpPc' = "idle"
            /\ errno' = "ECONNRESET"
            /\ UNCHANGED <<tupleBuffer, sockfd, conn, callEof, rcvd, peerEndpoint>>
       ELSE IF r = EOF_RECEIVED_BUFFER_SIZE /\ numReceivedBytes = 0
       THEN /\ callEof' = callEof \cup {sockfd}
            /\ IF modeOfSource = "server"
               THEN \* the connection is closed and the next client awaited
                    /\ conn' = [conn EXCEPT ![sockfd] = "closed"]
                    /\ sockfd' = NoFd
                    /\ peerEndpoint' = NoEndpoint
                    /\ tcpPc' = "eof_accept"
                    /\ UNCHANGED <<numReceivedBytes, tupleBuffer, lastReturn, rcvd, errno>>
               ELSE \* end of stream: fillTupleBuffer returns 0
                    /\ lastReturn' = [n |-> 0, bytes |-> <<>>]
                    /\ tcpPc' = "idle"
                    /\ UNCHANGED <<numReceivedBytes, tupleBuffer, sockfd, conn, rcvd,
                                   peerEndpoint, errno>>
       ELSE /\ numReceivedBytes' = numReceivedBytes + r
            /\ tupleBuffer' = tupleBuffer \o ReadBytes(sockfd, r)
            /\ rcvd' = [rcvd EXCEPT ![sockfd] = @ + r]
            /\ IF flush \/ numReceivedBytes + r >= RawTBSize
               THEN /\ lastReturn' = [n |-> numReceivedBytes + r,
                                      bytes |-> tupleBuffer \o ReadBytes(sockfd, r)]
                    /\ tcpPc' = "idle"
               ELSE UNCHANGED <<lastReturn, tcpPc>>
            /\ UNCHANGED <<sockfd, conn, callEof, peerEndpoint, errno>>
    /\ UNCHANGED <<mode, flushIntervalInMs, listenfd, acceptedConnections, thrown, peer, sent>>
    /\ UNCHANGED notTcpVars

\* close: both sockets are closed
TcpClose ==
    /\ tcpPc = "idle"
    /\ sockfd # NoFd \/ listenfd = "open"
    /\ sockfd' = NoFd
    /\ listenfd' = "closed"
    /\ conn' = [p \in Peers |-> IF p = sockfd THEN "closed" ELSE RefuseQueued[p]]
    /\ peerEndpoint' = NoEndpoint
    /\ UNCHANGED errno
    /\ UNCHANGED <<mode, flushIntervalInMs, tcpPc, acceptedConnections, numReceivedBytes,
                   tupleBuffer, lastReturn, callEof, thrown, peer, sent, rcvd>>
    /\ UNCHANGED notTcpVars

\* a peer connects to the listening socket and waits in its backlog
PeerConnect(p) ==
    /\ mode = "server"
    /\ listenfd = "open"
    /\ conn[p] = "none"
    /\ conn' = [conn EXCEPT ![p] = "queued"]
    /\ UNCHANGED <<mode, flushIntervalInMs, tcpPc, listenfd, sockfd, acceptedConnections,
                   numReceivedBytes, tupleBuffer, lastReturn, callEof, thrown, peer, sent, rcvd,
                   peerEndpoint, errno>>
    /\ UNCHANGED notTcpVars

PeerSend(p) ==
    /\ conn[p] \in {"queued", "accepted"}
    /\ peer[p] = "open"
    /\ sent[p] < MaxPayload
    /\ sent' = [sent EXCEPT ![p] = @ + 1]
    /\ UNCHANGED <<mode, flushIntervalInMs, tcpPc, listenfd, sockfd, acceptedConnections,
                   numReceivedBytes, tupleBuffer, lastReturn, callEof, thrown, conn, peer, rcvd,
                   peerEndpoint, errno>>
    /\ UNCHANGED notTcpVars

\* the peer closes its end, in order ("closed") or abruptly ("reset")
PeerClose(p, how) ==
    /\ conn[p] \in {"queued", "accepted"}
    /\ peer[p] = "open"
    /\ peer' = [peer EXCEPT ![p] = how]
    /\ UNCHANGED <<mode, flushIntervalInMs, tcpPc, listenfd, sockfd, acceptedConnections,
                   numReceivedBytes, tupleBuffer, lastReturn, callEof, thrown, conn, sent, rcvd,
                   peerEndpoint, errno>>
    /\ UNCHANGED notTcpVars

TcpInit ==
    /\ mode = "unset"
    /\ flushIntervalInMs = 0
    /\ tcpPc = "unconfigured"
    /\ listenfd = "closed"
    /\ sockfd = NoFd
    /\ acceptedConnections = 0
    /\ numReceivedBytes = 0
    /\ tupleBuffer = <<>>
    /\ lastReturn = NoReturn
    /\ callEof = {}
    /\ thrown = "none"
    /\ conn = [p \in Peers |-> "none"]
    /\ peer = [p \in Peers |-> "open"]
    /\ sent = [p \in Peers |-> 0]
    /\ rcvd = [p \in Peers |-> 0]
    /\ peerEndpoint = NoEndpoint
    /\ errno = "none"

TcpNext ==
    \/ \E m \in {"server", "client"}, f \in {0, 1} : TcpConstruct(m, f)
    \/ TcpOpen
    \/ \E p \in Peers : TcpAccept(p)
    \/ \E e \in AcceptErrors : TcpAcceptFail(e)
    \/ \E p \in Peers, ok \in BOOLEAN : TcpConnect(p, ok)
    \/ TcpFillBegin
    \/ \E r \in -1..RawTBSize, flush \in BOOLEAN : TcpRead(r, flush)
    \/ TcpClose
    \/ \E p \in Peers : PeerConnect(p)
    \/ \E p \in Peers : PeerSend(p)
    \/ \E p \in Peers, how \in {"closed", "reset"} : PeerClose(p, how)

(***************************************************************************)
(* tcp_source_csv_server.py: iter_filtered_csv_lines, the generator whose  *)
(* lines stream_to_client sends to the connected client.  A row is its     *)
(* timestamp column as written in the file and its key column.             *)
(***************************************************************************)
MaxRows == 3
MaxPasses == 2
\* float values: a number, NaN or -inf; ValueError is a failed parse, NoTs a row without the column
Num(n) == [kind |-> "num", v |-> n]
NaN == [kind |-> "nan", v |-> 0]
NegInf == [kind |-> "-inf", v |-> 0]
ValueError == [kind |-> "ValueError", v |-> 0]
NoTs == [kind |-> "none", v |-> 0]
Keys == {"k1", "k2"}
\* "absent": the row has no column at ts_col_index; "x": parses neither as int nor as float
TsRaw == {"1", "2", "nan", "x", "absent"}
EmptyRow == [ts |-> "", key |-> ""]
Rows == [ts : TsRaw, key : {"k1"}] \cup [ts : {"1", "2"}, key : {"k2"}] \cup {EmptyRow}
RECURSIVE FilesOfLength(_)
FilesOfLength(n) ==
    IF n = 0 THEN {<<>>}
    ELSE {Append(f, r) : f \in FilesOfLength(n - 1), r \in Rows}
OrderScopes == {"global", "per-key", "both"}

\* float(int(ts_raw)), else float(ts_raw), else ValueError
ParseTsJunkAsZero(raw) ==
    CASE raw = "1" -> Num(1)
      [] raw = "2" -> Num(2)
      [] raw = "nan" -> NaN
      [] OTHER -> Num(0)
ParseTs(raw) ==
    CASE raw = "1" -> Num(1)
      [] raw = "2" -> Num(2)
      [] raw = "nan" -> NaN
      [] OTHER -> ValueError

\* a <= b on floats: false when either is NaN; -inf is below every number
TsLeq(a, b) ==
    IF a = NaN \/ b = NaN THEN FALSE
    ELSE IF b = NegInf THEN a = NegInf
    ELSE IF a = NegInf THEN TRUE
    ELSE a.v <= b.v

\* last_ts_by_key = {} if key_col_index else None
\* (.get(key, -inf): a key not in the dict reads as -inf)
NoDict == [dict |-> FALSE, get |-> [k \in Keys |-> NegInf]]
InitialByKey(keyed) == [dict |-> keyed, get |-> [k \in Keys |-> NegInf]]

\* the larger of a number seen so far and a parsed value (NaN is no number)
NumMax(m, v) ==
    IF v = NaN THEN m
    ELSE IF m = NegInf THEN v
    ELSE IF v.v > m.v THEN v ELSE m

\* the generator is created with its arguments; nothing runs before the first next()
CsvStart ==
    /\ csvPc = "unstarted"
    /\ csvPc' = "pass"
    /\ \E n \in 0..MaxRows : csvFile' \in FilesOfLength(n)
    /\ loop' \in BOOLEAN
    /\ order_scope' \in OrderScopes
    /\ skip_header' \in BOOLEAN
    /\ last_ts_global' = NegInf
    /\ \E keyed \in BOOLEAN : last_ts_by_key' = InitialByKey(keyed)
    /\ total_forwarded' = 0
    /\ total_filtered' = 0
    /\ pos' = 1
    /\ first' = TRUE
    /\ passes' = 1
    /\ UNCHANGED <<fwdMax, fwdMaxByKey, passFwd, firstFwd>>
    /\ UNCHANGED notCsvVars

\* the state the ordering check keeps from one pass to the next
Forward(row, ts, byKey, global) ==
    /\ last_ts_by_key' = byKey
    /\ last_ts_global' = global
    /\ total_forwarded' = total_forwarded + 1
    /\ passFwd' = passFwd \cup {pos}
    /\ firstFwd' = IF passes = 1 THEN firstFwd \cup {pos} ELSE firstFwd
    /\ fwdMax' = IF ts \in {ValueError, NoTs} THEN fwdMax ELSE NumMax(fwdMax, ts)
    /\ fwdMaxByKey' = IF ts \in {ValueError, NoTs} THEN fwdMaxByKey
                      ELSE [fwdMaxByKey EXCEPT ![row.key] = NumMax(@, ts)]
    /\ UNCHANGED total_filtered

Filter(byKey) ==
    /\ last_ts_by_key' = byKey
    /\ total_filtered' = total_filtered + 1
    /\ UNCHANGED <<last_ts_global, total_forwarded, passFwd, firstFwd, fwdMax, fwdMaxByKey>>

Skip ==
    UNCHANGED <<last_ts_by_key, last_ts_global, total_forwarded, total_filtered,
                passFwd, firstFwd, fwdMax, fwdMaxByKey>>

\* one turn of "for row in reader"
CsvRow ==
    /\ csvPc = "pass"
    /\ pos <= Len(csvFile)
    /\ pos' = pos + 1
    /\ first' = FALSE
    /\ LET row == csvFile[pos]
           ts == ParseTs(row.ts)
           perKey == order_scope \in {"per-key", "both"} /\ last_ts_by_key.dict
           byKey == IF perKey THEN [last_ts_by_key EXCEPT !.get[row.key] = ts]
                    ELSE last_ts_by_key
       IN  IF first /\ skip_header THEN Skip
           ELSE IF row = EmptyRow THEN Skip
           ELSE IF row.ts = "absent" THEN Forward(row, NoTs, last_ts_by_key, last_ts_global)
           ELSE IF ts = ValueError
                THEN Forward(row, ValueError, last_ts_by_key, last_ts_global)
           ELSE IF perKey /\ TsLeq(ts, last_ts_by_key.get[row.key])
                THEN Filter(last_ts_by_key)
           ELSE IF order_scope \in {"global", "both"}
                THEN IF TsLeq(ts, last_ts_global)
                     THEN Filter(byKey)
                     ELSE Forward(row, ts, byKey, ts)
           ELSE Forward(row, ts, byKey, last_ts_global)
    /\ UNCHANGED <<csvPc, csvFile, loop, order_scope, skip_header, passes>>
    /\ UNCHANGED notCsvVars

\* the reader is exhausted: the file is closed, and reopened if loop is set
CsvEndOfPass ==
    /\ csvPc = "pass"
    /\ pos > Len(csvFile)
    /\ IF loop
       THEN /\ passes < MaxPasses
            /\ passes' = passes + 1
            /\ pos' = 1
            /\ first' = TRUE
            /\ passFwd' = {}
            /\ UNCHANGED csvPc
       ELSE /\ csvPc' = "done"
            /\ UNCHANGED <<passes, pos, first, passFwd>>
    /\ UNCHANGED <<csvFile, loop, order_scope, skip_header, last_ts_global, last_ts_by_key,
                   total_forwarded, total_filtered, firstFwd, fwdMax, fwdMaxByKey>>
    /\ UNCHANGED notCsvVars

CsvInit ==
    /\ csvPc = "unstarted"
    /\ csvFile = <<>>
    /\ loop = FALSE
    /\ order_scope = "global"
    /\ skip_header = FALSE
    /\ last_ts_global = NegInf
    /\ last_ts_by_key = NoDict
    /\ total_forwarded = 0
    /\ total_filtered = 0
    /\ pos = 1
    /\ first = TRUE
    /\ passes = 0
    /\ passFwd = {}
    /\ firstFwd = {}
    /\ fwdMax = NegInf
    /\ fwdMaxByKey = [k \in Keys |-> NegInf]

CsvNext ==
    \/ CsvStart
    \/ CsvRow
    \/ CsvEndOfPass

(***************************************************************************)
(* The MEOS physical functions: TemporalIntersectsPhysicalFunction::execute *)
(* with the MEOS wrapper it calls, the registration of the MEOS functions,  *)
(* and toSequenceHandler of the sequence operator.  A double is Num(n) with *)
(* n counted in units of 1e-7 degree (coordinates) or in seconds            *)
(* (timestamps), or NaN.  ErrorHandling.hpp is not part of the sources at   *)
(* hand: PRECONDITION is modelled from the error model of the               *)
(* specification, section 7.                                                *)
(***************************************************************************)
MaxChildren == 6

\* the reference point of TEMPORAL_INTERSECTS, in units of 1e-7 degree
RefLon == -739857000
RefLat == 407484000

Lons == {Num(RefLon), Num(RefLon - 4), Num(RefLon + 10), NaN}
Lats == {Num(RefLat), Num(RefLat + 4), Num(RefLat - 10), NaN}
Timestamps == {Num(1609459200), Num(1609545661)}

\* what a failed MEOS call may hand back: the error value -1, or 0
MeosOnNull == {-1, 0}

Aborted == [kind |-> "aborted", name |-> "", children |-> 0]
NoFunction == [kind |-> "none", name |-> "", children |-> 0]
FunctionObject(name, children) == [kind |-> "function", name |-> name, children |-> children]

PRECONDITIONIgnored(condition, continuation) == continuation

\* a failed precondition is fatal: the process aborts, nothing after it runs
PRECONDITION(condition, continuation) ==
    IF condition THEN continuation ELSE Aborted

HandlerKinds == {"nullptr", "SequenceOperatorHandler", "OtherOperatorHandler"}

\* dynamic_cast<SequenceOperatorHandler*>(handler)
dynamic_cast(handler) ==
    IF handler = "SequenceOperatorHandler" THEN handler ELSE "nullptr"

toSequenceHandler(handler) ==
    PRECONDITION(handler # "nullptr",
        PRECONDITION(dynamic_cast(handler) # "nullptr",
            [kind |-> "handler", name |-> dynamic_cast(handler), children |-> 0]))

RegisterTemporalAtStBoxPhysicalFunction(n) ==
    IF n = 4 THEN FunctionObject("TemporalAtStBox", 4)
    ELSE IF n = 5 THEN FunctionObject("TemporalAtStBox", 5)
    ELSE PRECONDITION(FALSE, FunctionObject("TemporalAtStBox", n))

RegisterTemporalIntersectsGeometryPhysicalFunction(n) ==
    IF n = 4 THEN FunctionObject("TemporalIntersectsGeometry", 4)
    ELSE IF n = 6 THEN FunctionObject("TemporalIntersectsGeometry", 6)
    ELSE PRECONDITION(FALSE, FunctionObject("TemporalIntersectsGeometry", n))

RegisterTemporalIntersectsPhysicalFunction(n) ==
    PRECONDITION(n = 3, FunctionObject("TemporalIntersects", 3))

RegistryNames == {"TemporalAtStBox", "TemporalIntersectsGeometry", "TemporalIntersects"}

Registrar(name, n) ==
    CASE name = "TemporalAtStBox" -> RegisterTemporalAtStBoxPhysicalFunction(n)
      [] name = "TemporalIntersectsGeometry" -> RegisterTemporalIntersectsGeometryPhysicalFunction(n)
      [] OTHER -> RegisterTemporalIntersectsPhysicalFunction(n)

\* std::to_string(double): "%f", six digits after the point, rounded to nearest;
\* the text is kept as the number of 1e-6 units it spells
to_string(d) ==
    IF d.kind = "num"
    THEN [text |-> "fixed6",
          micro |-> IF d.v >= 0 THEN (d.v + 5) \div 10 ELSE -((5 - d.v) \div 10)]
    ELSE [text |-> "nan", micro |-> 0]

\* gmtime and "%Y-%m-%d %H:%M:%S": the date and the time of day, to the second
convertSecondsToTimestamp(seconds) ==
    [day |-> seconds \div 86400, time |-> seconds % 86400]

NullInstant == [null |-> TRUE, x |-> 0, y |-> 0, day |-> 0, time |-> 0]

\* tgeompoint_in of MEOS on "SRID=..;POINT(x y)@t": the instant, or null when
\* the text does not parse
tgeompoint_in(x, y, t) ==
    IF x.text = "fixed6" /\ y.text = "fixed6"
    THEN [null |-> FALSE, x |-> x.micro, y |-> y.micro, day |-> t.day, time |-> t.time]
    ELSE NullInstant

\* TemporalInstant::TemporalInstant(lon, lat, ts, srid); both instants of a
\* call are built with the same default srid
TemporalInstant(lon, lat, ts) ==
    tgeompoint_in(to_string(lon), to_string(lat), convertSecondsToTimestamp(ts))

\* eintersects_tgeo_tgeo of MEOS on two instants: 1 when they are at the same
\* point at the same time, 0 when not; onNull when an argument is null
eintersects_tgeo_tgeo(a, b, onNull) ==
    IF a.null \/ b.null THEN onNull
    ELSE IF a.x = b.x /\ a.y = b.y /\ a.day = b.day /\ a.time = b.time THEN 1 ELSE 0

\* TemporalInstant::intersects: the int of MEOS converted to bool
intersects(a, b, onNull) == eintersects_tgeo_tgeo(a, b, onNull) # 0

\* the lambda of execute: try { ... } catch (...) { return false; }
TemporalIntersects(lon, lat, ts, raised, onNull) ==
    IF raised THEN FALSE
    ELSE intersects(TemporalInstant(lon, lat, ts.v),
                    TemporalInstant(Num(RefLon), Num(RefLat), ts.v), onNull)

TemporalIntersectsExecute(lon, lat, ts, raised, onNull) ==
    /\ procAborted = ""
    /\ fnPc' = "returned"
    /\ fnArgs' = [lon |-> lon, lat |-> lat, ts |-> ts]
    /\ fnRaised' = raised
    /\ fnResult' = TemporalIntersects(lon, lat, ts, raised, onNull)
    /\ UNCHANGED <<registered, registration, handlerCalls, handlerArg, procAborted>>
    /\ UNCHANGED notFnVars

\* one call of the registry for a function of the query plan
Register(name, n) ==
    /\ procAborted = ""
    /\ registration' = [name |-> name, children |-> n]
    /\ IF Registrar(name, n) = Aborted
       THEN procAborted' = "Register" /\ UNCHANGED registered
       ELSE registered' = Registrar(name, n) /\ UNCHANGED procAborted
    /\ UNCHANGED <<fnPc, fnArgs, fnRaised, fnResult, handlerCalls, handlerArg>>
    /\ UNCHANGED notFnVars

\* the lambda of SequencePhysicalOperator::open on the handler of the context
HandlerInvoke(handler) ==
    /\ procAborted = ""
    /\ IF toSequenceHandler(handler) = Aborted
       THEN procAborted' = "toSequenceHandler" /\ UNCHANGED handlerCalls
       ELSE handlerCalls' = handlerCalls \cup {handler} /\ UNCHANGED procAborted
    /\ handlerArg' = handler
    /\ UNCHANGED <<fnPc, fnArgs, fnRaised, fnResult, registered, registration>>
    /\ UNCHANGED notFnVars

FnInit ==
    /\ fnPc = "idle"
    /\ fnArgs = [lon |-> Num(0), lat |-> Num(0), ts |-> Num(0)]
    /\ fnRaised = FALSE
    /\ fnResult = FALSE
    /\ registered = NoFunction
    /\ registration = [name |-> "", children |-> 0]
    /\ handlerCalls = {}
    /\ handlerArg = "none"
    /\ procAborted = ""

FnNext ==
    \/ \E lon \in Lons, lat \in Lats, ts \in Timestamps, raised \in BOOLEAN, onNull \in MeosOnNull :
           TemporalIntersectsExecute(lon, lat, ts, raised, onNull)
    \/ \E name \in RegistryNames, n \in 0..MaxChildren : Register(name, n)
    \/ \E handler \in HandlerKinds : HandlerInvoke(handler)

(***************************************************************************)
(* MetricsRegistry (incCounter, observeLatencyMs, snapshot) and            *)
(* FixedLatencyHistogram (observe, percentile).  A std::lock_guard is a    *)
(* step that waits for the mutex and takes it, and a later step that gives *)
(* it back at the end of the scope.                                        *)
(***************************************************************************)
\* cap on the calls of one run
MaxCalls == 3

MetricThreads == {"m1", "m2", "m3"}
NoOwner == "none"

\* the latencies observed, in ms, and the tuple counts counted
Latencies == {0, 100}
Deltas == {0, 1}

CounterKeys == {"pipe_in_total", "latency_count", "latency_sum_ms"}

\* FixedLatencyHistogram::bounds
bounds == <<0, 1, 2, 4, 8, 16, 32, 64, 128, 256, 512, 1000, 2000, 5000, 10000, 20000, 60000>>

NoOut == [taken |-> FALSE, counters |-> [k \in CounterKeys |-> 0], p50 |-> 0, p95 |-> 0, p99 |-> 0]

\* a lock that does not wait
lockIgnored(m) == TRUE

\* std::lock_guard's constructor returns once the mutex is free
lock(m) == m = NoOwner

\* the mutex is kept at the end of the scope
unlockForgotten(owner) == owner

\* std::lock_guard's destructor
unlock(owner) == NoOwner

\* only the count is kept, not the sum
countLatencyOnly(c, value) == [c EXCEPT !["latency_count"] = @ + 1]

\* the locked block of observeLatencyMs
countLatency(c, value) ==
    [c EXCEPT !["latency_count"] = @ + 1, !["latency_sum_ms"] = @ + value]

\* the loop of observe: the first bucket whose bound is not below the value
\* (0-based), bounds.size() for the overflow bucket
RECURSIVE bucketFrom(_, _)
bucketFrom(valueMs, idx) ==
    IF idx < Len(bounds) /\ valueMs > bounds[idx + 1]
    THEN bucketFrom(valueMs, idx + 1)
    ELSE idx

\* the loop of percentile: the first bucket (0-based) at which the running
\* sum reaches rank, counts.size() when none does
RECURSIVE rankBucket(_, _, _, _)
rankBucket(cs, rank, i, acc) ==
    IF i >= Len(cs) THEN Len(cs)
    ELSE IF acc + cs[i + 1] >= rank THEN i
    ELSE rankBucket(cs, rank, i + 1, acc + cs[i + 1])

\* percentile(p), p in percent: static_cast<uint64_t>(p * total) truncates
percentile(cs, tot, p) ==
    IF tot = 0 THEN 0
    ELSE LET r == (p * tot) \div 100
             rank == IF r = 0 THEN 1 ELSE r
             i == rankBucket(cs, rank, 0, 0)
         IN IF i = 0 THEN 0
            ELSE IF i < Len(bounds) THEN bounds[i] + 1
            ELSE bounds[Len(bounds)] + 1

\* ---- a thread makes a call
CallIncCounter(t, delta) ==
    /\ mpc[t] = "idle"
    /\ calls < MaxCalls
    /\ calls' = calls + 1
    /\ mpc' = [mpc EXCEPT ![t] = "inc_lock"]
    /\ marg' = [marg EXCEPT ![t] = delta]
    /\ tuplesExecuted' = tuplesExecuted + delta
    /\ UNCHANGED <<mtx, regCounters, hmtx, counts, total, mtmp, out, valuesObserved>>
    /\ UNCHANGED notMetVars

CallObserveLatencyMs(t, value) ==
    /\ mpc[t] = "idle"
    /\ calls < MaxCalls
    /\ calls' = calls + 1
    /\ mpc' = [mpc EXCEPT ![t] = "obs_lock"]
    /\ marg' = [marg EXCEPT ![t] = value]
    /\ UNCHANGED <<mtx, regCounters, hmtx, counts, total, mtmp, out, tuplesExecuted, valuesObserved>>
    /\ UNCHANGED notMetVars

CallSnapshot(t) ==
    /\ mpc[t] = "idle"
    /\ calls < MaxCalls
    /\ calls' = calls + 1
    /\ mpc' = [mpc EXCEPT ![t] = "snap_lock"]
    /\ out' = [out EXCEPT ![t] = NoOut]
    /\ UNCHANGED <<mtx, regCounters, hmtx, counts, total, marg, mtmp, tuplesExecuted, valuesObserved>>
    /\ UNCHANGED notMetVars

\* ---- incCounter("pipe_<pid>_in_total", tuplesHere), as execute calls it
IncLock(t) ==
    /\ mpc[t] = "inc_lock"
    /\ lock(mtx)
    /\ mtx' = t
    /\ mtmp' = [mtmp EXCEPT ![t] = regCounters["pipe_in_total"]]
    /\ mpc' = [mpc EXCEPT ![t] = "inc_write"]
    /\ UNCHANGED <<regCounters, hmtx, counts, total, marg, out, calls, tuplesExecuted, valuesObserved>>
    /\ UNCHANGED notMetVars

IncWrite(t) ==
    /\ mpc[t] = "inc_write"
    /\ regCounters' = [regCounters EXCEPT !["pipe_in_total"] = mtmp[t] + marg[t]]
    /\ mtx' = unlock(mtx)
    /\ mpc' = [mpc EXCEPT ![t] = "idle"]
    /\ marg' = [marg EXCEPT ![t] = 0]
    /\ mtmp' = [mtmp EXCEPT ![t] = 0]
    /\ UNCHANGED <<hmtx, counts, total, out, calls, tuplesExecuted, valuesObserved>>
    /\ UNCHANGED notMetVars

\* ---- observeLatencyMs(value)
ObserveLock(t) ==
    /\ mpc[t] = "obs_lock"
    /\ lock(mtx)
    /\ mtx' = t
    /\ mpc' = [mpc EXCEPT ![t] = "obs_count"]
    /\ UNCHANGED <<regCounters, hmtx, counts, total, marg, mtmp, out, calls, tuplesExecuted, valuesObserved>>
    /\ UNCHANGED notMetVars

ObserveCount(t) ==
    /\ mpc[t] = "obs_count"
    /\ regCounters' = countLatency(regCounters, marg[t])
    /\ mtx' = unlock(mtx)
    /\ mpc' = [mpc EXCEPT ![t] = "hist_lock"]
    /\ UNCHANGED <<hmtx, counts, total, marg, mtmp, out, calls, tuplesExecuted, valuesObserved>>
    /\ UNCHANGED notMetVars

\* histogram.observe(value)
HistogramLock(t) ==
    /\ mpc[t] = "hist_lock"
    /\ lock(hmtx)
    /\ hmtx' = t
    /\ mpc' = [mpc EXCEPT ![t] = "hist_observe"]
    /\ UNCHANGED <<mtx, regCounters, counts, total, marg, mtmp, out, calls, tuplesExecuted, valuesObserved>>
    /\ UNCHANGED notMetVars

HistogramObserve(t) ==
    /\ mpc[t] = "hist_observe"
    /\ LET idx == bucketFrom(marg[t], 0)
       IN counts' = [counts EXCEPT ![idx + 1] = @ + 1]
    /\ total' = total + 1
    /\ hmtx' = unlock(hmtx)
    /\ mpc' = [mpc EXCEPT ![t] = "idle"]
    /\ valuesObserved' = valuesObserved + marg[t]
    /\ marg' = [marg EXCEPT ![t] = 0]
    /\ UNCHANGED <<mtx, regCounters, mtmp, out, calls, tuplesExecuted>>
    /\ UNCHANGED notMetVars

\* ---- snapshot()
SnapshotLock(t) ==
    /\ mpc[t] = "snap_lock"
    /\ lock(mtx)
    /\ mtx' = t
    /\ out' = [out EXCEPT ![t].counters = regCounters]
    /\ mpc' = [mpc EXCEPT ![t] = "p50_lock"]
    /\ UNCHANGED <<regCounters, hmtx, counts, total, marg, mtmp, calls, tuplesExecuted, valuesObserved>>
    /\ UNCHANGED notMetVars

\* histogram.percentile(p): the lock_guard of percentile
PercentileLock(t) ==
    /\ mpc[t] \in {"p50_lock", "p95_lock", "p99_lock"}
    /\ lock(hmtx)
    /\ hmtx' = t
    /\ mpc' = [mpc EXCEPT ![t] = CASE mpc[t] = "p50_lock" -> "p50"
                                   [] mpc[t] = "p95_lock" -> "p95"
                                   [] OTHER -> "p99"]
    /\ UNCHANGED <<mtx, regCounters, counts, total, marg, mtmp, out, calls, tuplesExecuted, valuesObserved>>
    /\ UNCHANGED notMetVars

\* the body of percentile and the assignment to out[...]
Percentile(t) ==
    /\ mpc[t] \in {"p50", "p95", "p99"}
    /\ out' = [out EXCEPT ![t] =
                  CASE mpc[t] = "p50" -> [@ EXCEPT !.p50 = percentile(counts, total, 50)]
                    [] mpc[t] = "p95" -> [@ EXCEPT !.p95 = percentile(counts, total, 95)]
                    [] OTHER -> [@ EXCEPT !.p99 = percentile(counts, total, 99), !.taken = TRUE]]
    /\ hmtx' = unlock(hmtx)
    /\ mpc' = [mpc EXCEPT ![t] = CASE mpc[t] = "p50" -> "p95_lock"
                                   [] mpc[t] = "p95" -> "p99_lock"
                                   [] OTHER -> "snap_return"]
    /\ UNCHANGED <<mtx, regCounters, counts, total, marg, mtmp, calls, tuplesExecuted, valuesObserved>>
    /\ UNCHANGED notMetVars

\* return out: the registry mutex is given back, the caller has the map
SnapshotReturn(t) ==
    /\ mpc[t] = "snap_return"
    /\ mtx' = unlock(mtx)
    /\ mpc' = [mpc EXCEPT ![t] = "idle"]
    /\ UNCHANGED <<regCounters, hmtx, counts, total, marg, mtmp, out, calls, tuplesExecuted, valuesObserved>>
    /\ UNCHANGED notMetVars

\* the steps of thread t inside a call
MetStep(t) ==
    \/ IncLock(t)
    \/ IncWrite(t)
    \/ ObserveLock(t)
    \/ ObserveCount(t)
    \/ HistogramLock(t)
    \/ HistogramObserve(t)
    \/ SnapshotLock(t)
    \/ PercentileLock(t)
    \/ Percentile(t)
    \/ SnapshotReturn(t)

MetInit ==
    /\ mtx = NoOwner
    /\ regCounters = [k \in CounterKeys |-> 0]
    /\ hmtx = NoOwner
    /\ counts = [i \in 1..(Len(bounds) + 1) |-> 0]
    /\ total = 0
    /\ mpc = [t \in MetricThreads |-> "idle"]
    /\ marg = [t \in MetricThreads |-> 0]
    /\ mtmp = [t \in MetricThreads |-> 0]
    /\ out = [t \in MetricThreads |-> NoOut]
    /\ calls = 0
    /\ tuplesExecuted = 0
    /\ valuesObserved = 0

MetNext ==
    \/ \E t \in MetricThreads, delta \in Deltas : CallIncCounter(t, delta)
    \/ \E t \in MetricThreads, value \in Latencies : CallObserveLatencyMs(t, value)
    \/ \E t \in MetricThreads : CallSnapshot(t)
    \/ \E t \in MetricThreads : MetStep(t)

(***************************************************************************)
(* MEOSWrapper: ensureMeosInitialized and the calls of the MEOS parsing    *)
(* functions in the constructors and in parseTemporalPoint, by concurrent  *)
(* threads.  A parsing call is named by the source line it is made at.     *)
(***************************************************************************)
MaxWrapCalls == 3
WrapThreads == {"t1", "t2"}
NoSite == 0

WrapOps == {"ensureMeosInitialized", "TemporalInstant", "TemporalGeometry", "StaticGeometry",
            "SpatioTemporalBox", "parseTemporalPoint"}

\* the string passed, reduced to what the wrapper looks at: empty, containing "Point(",
\* containing "POINT(" and not "Point(", or containing neither
WrapArgs == {"", "Point(", "POINT(", "npos"}

\* the parsing calls of the wrapper and the MEOS function each of them calls
Sites == {248, 290, 299, 302, 309, 352, 477, 481, 532}
ParseFunction(l) ==
    CASE l \in {248, 290, 299, 302, 477, 481} -> "tgeompoint_in"
      [] l = 309 -> "tgeometry_in"
      [] l = 352 -> "geom_in"
      [] l = 532 -> "stbox_in"

\* the parsing calls made inside the scope of a lock_guard on meos_parse_mutex
Guarded(l) == l \in {248, 290, 299, 309, 352, 532}

\* the first parsing call of a wrapper function
FirstSite(op, arg) ==
    CASE op = "ensureMeosInitialized" -> NoSite
      [] op = "TemporalInstant" -> 248
      [] op = "TemporalGeometry" -> 290
      [] op = "StaticGeometry" -> 352
      [] op = "SpatioTemporalBox" -> 532
      [] op = "parseTemporalPoint" -> IF arg = "" THEN NoSite ELSE 477

\* the parsing call that follows the one at l, which returned a value (parsed) or nullptr
NextSite(l, arg, parsed) ==
    CASE l = 290 -> IF parsed THEN NoSite
                    ELSE IF arg = "Point(" THEN 299
                    ELSE IF arg = "POINT(" THEN 302
                    ELSE 309
      [] l \in {299, 302} -> IF parsed THEN NoSite ELSE 309
      [] l = 477 -> IF parsed THEN NoSite ELSE 481
      [] OTHER -> NoSite

\* where a thread goes on at the parsing call l
AtSite(l) == IF l = NoSite THEN "idle" ELSE IF Guarded(l) THEN "parse_lock" ELSE "parse_call"

\* a wrapper function is called; each of them begins with ensureMeosInitialized
WrapCall(t, op, arg) ==
    /\ wrapPc[t] = "idle"
    /\ wrapCalls < MaxWrapCalls
    /\ wrapCalls' = wrapCalls + 1
    /\ wrapOp' = [wrapOp EXCEPT ![t] = op]
    /\ wrapArg' = [wrapArg EXCEPT ![t] = arg]
    /\ wrapPc' = [wrapPc EXCEPT ![t] = "ensure_lock"]
    /\ UNCHANGED <<meos_initialized, meos_init_mutex, meos_parse_mutex, meosLibrary,
                   initializeCalls, atexitCalls, site, ensured>>
    /\ UNCHANGED notWrapVars

\* ensureMeosInitialized: lock_guard on meos_init_mutex, then if (!meos_initialized)
EnsureLock(t) ==
    /\ wrapPc[t] = "ensure_lock"
    /\ lock(meos_init_mutex)
    /\ meos_init_mutex' = t
    /\ wrapPc' = [wrapPc EXCEPT ![t] = IF meos_initialized THEN "ensure_unlock" ELSE "initialize"]
    /\ UNCHANGED <<meos_initialized, meos_parse_mutex, meosLibrary, initializeCalls, atexitCalls,
                   wrapOp, wrapArg, site, ensured, wrapCalls>>
    /\ UNCHANGED notWrapVars

\* the environment is set up and meos_initialize is called
InitializeBegin(t) ==
    /\ wrapPc[t] = "initialize"
    /\ meosLibrary' = "initializing"
    /\ initializeCalls' = initializeCalls + 1
    /\ wrapPc' = [wrapPc EXCEPT ![t] = "initializing"]
    /\ UNCHANGED <<meos_initialized, meos_init_mutex, meos_parse_mutex, atexitCalls,
                   wrapOp, wrapArg, site, ensured, wrapCalls>>
    /\ UNCHANGED notWrapVars

\* meos_initialize returns; meos_initialized = true
InitializeEnd(t) ==
    /\ wrapPc[t] = "initializing"
    /\ meosLibrary' = "initialized"
    /\ meos_initialized' = TRUE
    /\ wrapPc' = [wrapPc EXCEPT ![t] = "atexit"]
    /\ UNCHANGED <<meos_init_mutex, meos_parse_mutex, initializeCalls, atexitCalls,
                   wrapOp, wrapArg, site, ensured, wrapCalls>>
    /\ UNCHANGED notWrapVars

\* std::atexit(cleanupMeos)
RegisterCleanup(t) ==
    /\ wrapPc[t] = "atexit"
    /\ atexitCalls' = atexitCalls + 1
    /\ wrapPc' = [wrapPc EXCEPT ![t] = "ensure_unlock"]
    /\ UNCHANGED <<meos_initialized, meos_init_mutex, meos_parse_mutex, meosLibrary,
                   initializeCalls, wrapOp, wrapArg, site, ensured, wrapCalls>>
    /\ UNCHANGED notWrapVars

\* ensureMeosInitialized returns: the lock_guard releases meos_init_mutex; the wrapper
\* function goes on to its first parsing call
EnsureReturn(t) ==
    /\ wrapPc[t] = "ensure_unlock"
    /\ meos_init_mutex' = IF meos_init_mutex = t THEN unlock(t) ELSE meos_init_mutex
    /\ ensured' = [ensured EXCEPT ![t] = TRUE]
    /\ site' = [site EXCEPT ![t] = FirstSite(wrapOp[t], wrapArg[t])]
    /\ wrapPc' = [wrapPc EXCEPT ![t] = AtSite(FirstSite(wrapOp[t], wrapArg[t]))]
    /\ UNCHANGED <<meos_initialized, meos_parse_mutex, meosLibrary, initializeCalls, atexitCalls,
                   wrapOp, wrapArg, wrapCalls>>
    /\ UNCHANGED notWrapVars

\* std::lock_guard on meos_parse_mutex before a parsing call
ParseLock(t) ==
    /\ wrapPc[t] = "parse_lock"
    /\ lock(meos_parse_mutex)
    /\ meos_parse_mutex' = t
    /\ wrapPc' = [wrapPc EXCEPT ![t] = "parse_call"]
    /\ UNCHANGED <<meos_initialized, meos_init_mutex, meosLibrary, initializeCalls, atexitCalls,
                   wrapOp, wrapArg, site, ensured, wrapCalls>>
    /\ UNCHANGED notWrapVars

\* the parsing function is entered
ParseEnter(t) ==
    /\ wrapPc[t] = "parse_call"
    /\ wrapPc' = [wrapPc EXCEPT ![t] = "parsing"]
    /\ UNCHANGED <<meos_initialized, meos_init_mutex, meos_parse_mutex, meosLibrary,
                   initializeCalls, atexitCalls, wrapOp, wrapArg, site, ensured, wrapCalls>>
    /\ UNCHANGED notWrapVars

\* the parsing function returns a value (parsed) or nullptr; the lock_guard, if there is
\* one, releases the mutex and the wrapper function goes on
ParseReturn(t, parsed) ==
    /\ wrapPc[t] = "parsing"
    /\ meos_parse_mutex' = IF Guarded(site[t]) /\ meos_parse_mutex = t THEN unlock(t)
                           ELSE meos_parse_mutex
    /\ site' = [site EXCEPT ![t] = NextSite(site[t], wrapArg[t], parsed)]
    /\ wrapPc' = [wrapPc EXCEPT ![t] = AtSite(NextSite(site[t], wrapArg[t], parsed))]
    /\ UNCHANGED <<meos_initialized, meos_init_mutex, meosLibrary, initializeCalls, atexitCalls,
                   wrapOp, wrapArg, ensured, wrapCalls>>
    /\ UNCHANGED notWrapVars

WrapInit ==
    /\ meos_initialized = FALSE
    /\ meos_init_mutex = NoOwner
    /\ meos_parse_mutex = NoOwner
    /\ meosLibrary = "uninitialized"
    /\ initializeCalls = 0
    /\ atexitCalls = 0
    /\ wrapPc = [t \in WrapThreads |-> "idle"]
    /\ wrapOp = [t \in WrapThreads |-> "none"]
    /\ wrapArg = [t \in WrapThreads |-> ""]
    /\ site = [t \in WrapThreads |-> NoSite]
    /\ ensured = [t \in WrapThreads |-> FALSE]
    /\ wrapCalls = 0

WrapNext ==
    \/ \E t \in WrapThreads, op \in WrapOps, arg \in WrapArgs : WrapCall(t, op, arg)
    \/ \E t \in WrapThreads : EnsureLock(t)
    \/ \E t \in WrapThreads : InitializeBegin(t)
    \/ \E t \in WrapThreads : InitializeEnd(t)
    \/ \E t \in WrapThreads : RegisterCleanup(t)
    \/ \E t \in WrapThreads : EnsureReturn(t)
    \/ \E t \in WrapThreads : ParseLock(t)
    \/ \E t \in WrapThreads : ParseEnter(t)
    \/ \E t \in WrapThreads, parsed \in BOOLEAN : ParseReturn(t, parsed)

(***************************************************************************)
(* PrintSink::execute: the egress count and the end-to-end latency of a    *)
(* buffer.  Timestamps and clock readings are 64-bit in the code; here     *)
(* they are WordBits wide, INVALID_VALUE being the largest unsigned value. *)
(***************************************************************************)
WordBits == 8
MaxSinkCalls == 3
MaxSinkTuples == 1
MaxClock == 2

\* static_cast<uint64_t>
uint64_t(x) == x % (2 ^ WordBits)

\* NES::Timestamp
INITIAL_VALUE == 0
INVALID_VALUE == 2 ^ WordBits - 1

NoLatency == -1
SinkCounterKeys == {"sink_out_total", "latency_missing_count", "latency_future_count",
                    "latency_count", "latency_sum_ms"}

\* the buffers handed to the sink, reduced to tuple count and creation timestamp
SinkBuffers == [tuples : 0..MaxSinkTuples,
                creationTimestamp : (0..(MaxClock + 1)) \cup {INVALID_VALUE}]

\* steady_clock::now() in ms, a signed value
ClockReadings == -1..MaxClock

\* MetricsRegistry::incCounter
incCounter(c, name, delta) == [c EXCEPT ![name] = @ + delta]

\* the difference of the two unsigned values, whatever their order
latWrapped(nowMs, tsInMs) == uint64_t(nowMs - tsInMs)

\* lat: the difference, saturated at 0
lat(nowMs, tsInMs) == IF nowMs >= tsInMs THEN uint64_t(nowMs - tsInMs) ELSE 0

\* no buffer is taken for empty
tuplesIgnored(tuples) == FALSE

\* empty buffers are ignored for latency
isEmptyBuffer(tuples) == tuples = 0

\* outputParser->getFormattedBuffer: one line per tuple, here their number
getFormattedBuffer(inputBuffer) == inputBuffer.tuples

\* the counters after the latency part of execute
LatencyCounters(c, tsInMs, nowMsSigned) ==
    IF tsInMs = INVALID_VALUE \/ tsInMs = INITIAL_VALUE
    THEN incCounter(c, "latency_missing_count", 1)
    ELSE IF nowMsSigned >= 0
    THEN countLatency(IF uint64_t(nowMsSigned) < tsInMs
                      THEN incCounter(c, "latency_future_count", 1)
                      ELSE c,
                      lat(uint64_t(nowMsSigned), tsInMs))
    ELSE c

\* the value passed to observeLatencyMs, if it is called
LatencyObserved(tsInMs, nowMsSigned) ==
    IF tsInMs = INVALID_VALUE \/ tsInMs = INITIAL_VALUE \/ nowMsSigned < 0
    THEN NoLatency
    ELSE lat(uint64_t(nowMsSigned), tsInMs)

\* PrintSink::execute on a valid buffer, the clock reading nowMsSigned
PrintSinkExecute(inputBuffer, nowMsSigned) ==
    /\ sinkCalls < MaxSinkCalls
    /\ sinkCalls' = sinkCalls + 1
    /\ lastBuffer' = inputBuffer
    /\ lastNow' = nowMsSigned
    /\ IF isEmptyBuffer(inputBuffer.tuples)
       THEN /\ sinkCounters' = incCounter(sinkCounters, "sink_out_total", inputBuffer.tuples)
            /\ observed' = NoLatency
            /\ UNCHANGED outputStream
       ELSE /\ sinkCounters' =
                   LatencyCounters(incCounter(sinkCounters, "sink_out_total", inputBuffer.tuples),
                                   inputBuffer.creationTimestamp, nowMsSigned)
            /\ observed' = LatencyObserved(inputBuffer.creationTimestamp, nowMsSigned)
            /\ outputStream' = Append(outputStream, getFormattedBuffer(inputBuffer))
    /\ UNCHANGED notSinkVars

SinkInit ==
    /\ sinkCounters = [k \in SinkCounterKeys |-> 0]
    /\ outputStream = <<>>
    /\ observed = NoLatency
    /\ lastBuffer = [tuples |-> 0, creationTimestamp |-> INITIAL_VALUE]
    /\ lastNow = 0
    /\ sinkCalls = 0

SinkNext ==
    \E inputBuffer \in SinkBuffers, nowMsSigned \in ClockReadings :
        PrintSinkExecute(inputBuffer, nowMsSigned)

Init == SeqInit /\ StageInit /\ AggInit /\ TcpInit /\ CsvInit /\ FnInit /\ MetInit /\ WrapInit
        /\ SinkInit

Next ==
    \/ SequenceSetup
    \/ \E t \in Threads, b \in Buffers : SequenceOpen(t, b)
    \/ \E t \in Threads : ScanOpen(t)
    \/ \E t \in Threads : ScanClose(t)
    \/ \E t \in Threads : MarkDone(t)
    \/ \E t \in Threads : OpenReturn(t)
    \/ SequenceTerminate

Spec == Init /\ [][Next]_vars

StageSpec == Init /\ [][StageNext]_vars

AggSpec == Init /\ [][AggNext]_vars

TcpSpec == Init /\ [][TcpNext]_vars

\* the thread inside fillBuffer keeps running: its loop goes on reading, and a
\* configured flush interval passes in the end
TcpLiveSpec ==
    Init /\ [][TcpNext]_vars
         /\ WF_vars(\E r \in -1..RawTBSize, flush \in BOOLEAN : TcpRead(r, flush))

CsvSpec == Init /\ [][CsvNext]_vars

StageCallSpec == Init /\ [][StageCallNext]_vars

FnSpec == Init /\ [][FnNext]_vars

MetricsSpec == Init /\ [][MetNext]_vars

WrapSpec == Init /\ [][WrapNext]_vars

SinkSpec == Init /\ [][SinkNext]_vars

\* as long as some thread inside a call can take a step, one of them does
MetricsLiveSpec ==
    Init /\ [][MetNext]_vars /\ WF_vars(\E t \in MetricThreads : MetStep(t))

(***************************************************************************)
(* Properties of the Sequencer.                                            *)
(***************************************************************************)
Quiescent == \A t \in Threads : pc[t] = "idle"

\* thread t's open call starts in this step (its submission to the handler)
Submits(t) == pc[t] = "idle" /\ pc'[t] # "idle"

C2_InOrderUnderConcurrency ==
    /\ \A i, j \in DOMAIN released : i < j => released[i].seq < released[j].seq
    /\ hstate # "stopped" => \A i \in DOMAIN released : released[i].seq = i - 1

\* a worker submitted n+1 while another worker was still processing n >= 1
C2_Witness ==
    \E t, u \in Threads :
        /\ t # u
        /\ pc[t] \in {"scanOpen", "scanClose", "mark"}
        /\ cur[t].seq >= 1
        /\ pc[u] = "ret"
        /\ signal[u] = "held"
        /\ sub[u].seq = cur[t].seq + 1

\* C3: a submission above the expected-next number hands nothing downstream and
\* (when the table has room and holds no buffer of that number) leaves the buffer
\* in the table; a submission of the expected-next number is handed downstream by
\* that call, which then hands out the held buffers of the following numbers one
\* by one, in ascending order, and returns only at the first number not held.
C3_GapHandling ==
    [][\A t \in Threads :
        /\ (Submits(t) /\ sub'[t].seq > nextSeq)
              => /\ pc'[t] = "ret"
                 /\ released' = released
                 /\ (sub'[t].seq \notin heldSeqs /\ Cardinality(held) < MaxBacklog)
                       => sub'[t] \in held'
        /\ (Submits(t) /\ sub'[t].seq = nextSeq)
              => (pc'[t] = "scanOpen" /\ cur'[t] = sub'[t])
        /\ (pc[t] = "scanOpen" /\ pc'[t] = "scanClose")
              => released' = Append(released, cur[t])
        /\ (pc[t] = "mark" /\ pc'[t] = "scanOpen")
              => (cur'[t] \in held /\ cur'[t] \notin held' /\ cur'[t].seq = cur[t].seq + 1)
        /\ (pc[t] = "mark" /\ pc'[t] = "ret")
              => (cur[t].seq + 1) \notin heldSeqs
      ]_vars

\* 0 was released, 2 and 3 were held; the call that submitted 1 has handed 1 and 2
\* downstream and is about to hand 3
C3_Witness ==
    \E t \in Threads :
        /\ \A u \in Threads \ {t} : pc[u] = "idle"
        /\ sub[t].seq = 1
        /\ pc[t] = "scanOpen"
        /\ cur[t].seq = 3
        /\ SeqNumbers(released) = <<0, 1, 2>>

\* C4: a submission below the expected-next number is dropped by the call that
\* makes it: the call returns without handing anything downstream, the
\* expected-next number, the table and the released buffers are unchanged, and
\* the pipeline is not aborted.
C4_LateArrivalDropped ==
    [][\A t \in Threads :
        (Submits(t) /\ sub'[t].seq < nextSeq)
            => /\ signal'[t] = "dropped"
               /\ pc'[t] = "ret"
               /\ cur'[t] = None
               /\ ~aborted'
               /\ UNCHANGED <<nextSeq, held, released>>
      ]_vars

C4_Witness ==
    \E t \in Threads :
        /\ pc[t] = "ret"
        /\ signal[t] = "dropped"
        /\ sub[t].seq < nextSeq
        /\ held # {}
        /\ ~aborted

C7_BacklogBounded ==
    /\ [](Cardinality(held) <= MaxBacklog)
    /\ [][\A t \in Threads :
            (/\ Submits(t)
             /\ sub'[t].seq > nextSeq
             /\ sub'[t].seq \notin heldSeqs
             /\ Cardinality(held) >= MaxBacklog)
                => /\ signal'[t] = "backpressure"
                   /\ pc'[t] = "ret"
                   /\ held' = held
                   /\ ~aborted'
         ]_vars

\* the expected-next number has not arrived, the table is full and a further
\* buffer was refused
C7_Witness ==
    \E t \in Threads :
        /\ signal[t] = "backpressure"
        /\ Cardinality(held) = MaxBacklog
        /\ nextSeq \notin heldSeqs
        /\ sub[t] \notin held

(***************************************************************************)
(* Properties of the Compiled Pipeline Stage.                              *)
(***************************************************************************)
Positions(e) == {i \in DOMAIN events : events[i] = e}
HookNames == {"handler.start", "scan.setup"}

\* C8 (as the code has it): within start the operators' setup hooks run first,
\* each once and in tree order, and the operator tree is compiled after them;
\* the compiled routine is called on a buffer only after both, and stop comes
\* after every execute.
C8_SetupThenCompile ==
    /\ \A h \in HookNames : Cardinality(Positions(h)) <= 1
    /\ Cardinality(Positions("compile")) <= 1
    /\ \A i \in Positions("compile") \cup Positions("compileFailed") :
          \A h \in HookNames : \E j \in Positions(h) : j < i
    /\ \A i \in Positions("scan.setup") : \E j \in Positions("handler.start") : j < i
    /\ \A i \in Positions("execute") : \E j \in Positions("compile") : j < i
    /\ \A i \in Positions("stop") : \A j \in Positions("execute") : j < i
    /\ (stage \in {"started", "stopped"}) <=> (compiledPipelineFunction = "routine")

C8_Witness ==
    /\ stage = "stopped"
    /\ Cardinality(Positions("execute")) = MaxExec

\* C8 as claimed: the tree is compiled before any setup hook runs
C8_CompileBeforeSetup ==
    /\ \A h \in HookNames : Cardinality(Positions(h)) <= 1
    /\ \A h \in HookNames : \A i \in Positions(h) : \E j \in Positions("compile") : j < i
    /\ \A i \in Positions("execute") : \E j \in Positions("compile") : j < i

\* C9 (as the code has it): when compiling fails, the error carries the
\* pipeline's description and the cause and no compiled routine is installed,
\* but the setup hooks that start ran before compiling stay performed.
C9_CompileFailure ==
    stage = "startFailed"
        => /\ startError.description = PipelineDescription
           /\ startError.cause \in Causes
           /\ compiledPipelineFunction = "null"
           /\ handlersStarted = <<"handler.start", "scan.setup">>

C9_Witness ==
    /\ stage = "startFailed"
    /\ startError.cause = "tracing"

\* C9 as claimed: no effect of the failed attempt remains
C9_NoEffectRemains ==
    stage = "startFailed"
        => /\ startError.description = PipelineDescription
           /\ startError.cause \in Causes
           /\ compiledPipelineFunction = "null"
           /\ handlersStarted = <<>>

\* C10 (as the code has it): what the compiled routine throws reaches the
\* caller of execute as thrown, with its cause and without the pipeline's
\* description; it is never swallowed inside execute.
C10_ExceptionPropagatesUnwrapped ==
    \A w \in Threads :
        /\ wthrown[w] # "none"
              => (wpc[w] = "raised" /\ werr[w] = [cause |-> wthrown[w], description |-> "none"])
        /\ wthrown[w] = "none" => (wpc[w] # "raised" /\ werr[w] = NoError)

C10_Witness ==
    \E w \in Threads : wpc[w] = "raised" /\ wthrown[w] = "bad_alloc" /\ wbuf[w].tuples > 0

\* C10 as claimed: the exception leaves execute wrapped with the description
C10_WrappedWithDescription ==
    \A w \in Threads :
        wpc[w] = "raised" => (werr[w].cause = wthrown[w] /\ werr[w].description = PipelineDescription)

(***************************************************************************)
(* Properties of the trajectory aggregate.                                 *)
(***************************************************************************)
\* the state a single region reaches when the records are lifted into it in order
RECURSIVE LiftAll(_)
LiftAll(records) ==
    IF records = <<>> THEN <<>>
    ELSE lift(LiftAll(SubSeq(records, 1, Len(records) - 1)), records[Len(records)])

RecordSet(pv) == {Entries(pv)[i] : i \in 1..Len(Entries(pv))}

CombineStep(s1, s2) == lastCombine' = <<s1, s2>> /\ lastCombine # <<s1, s2>>

\* C11: lower on a state that was reset and into which no record was lifted or
\* merged returns the text BINARY(0), and its loop has read no record.
C11_EmptySentinel ==
    \A s \in AggregationStates :
        (aggStatus[s] = "live" /\ lowered[s] # NoResult /\ origin[s] = {})
            => /\ lowered[s].text = <<"BINARY(", 0, ")">>
               /\ lowered[s].reads = 0

C11_Witness ==
    \E s \in AggregationStates :
        aggStatus[s] = "live" /\ lowered[s] # NoResult /\ origin[s] = {}

C13_CombineConcatenates ==
    [][\A s1, s2 \in AggregationStates :
          CombineStep(s1, s2) =>
              /\ Entries(pagedVector'[s1])
                     = Entries(pagedVector[s1]) \o Entries(pagedVector[s2])
              /\ getTotalNumberOfEntries(pagedVector'[s1])
                     = getTotalNumberOfEntries(pagedVector[s1])
                           + getTotalNumberOfEntries(pagedVector[s2])
              /\ lower(pagedVector'[s1])
                     = lower(LiftAll(Entries(pagedVector[s1]) \o Entries(pagedVector[s2])))]_vars

C13_Witness ==
    \E s1, s2 \in AggregationStates :
        /\ lastCombine = <<s1, s2>>
        /\ aggStatus[s1] = "live"
        /\ lifted[s1] # {}
        /\ lifted[s2] # {}
        /\ origin[s1] = lifted[s1] \cup lifted[s2]
        /\ getTotalNumberOfEntries(pagedVector[s1]) = Cardinality(origin[s1])

\* C14: whichever way partial states over disjoint record sets are combined,
\* (A then B) then C or A then (B then C), the merged state holds exactly the
\* union of the records and lower returns the count over that union.
C14_CombineAssociative ==
    \A s \in AggregationStates :
        aggStatus[s] = "live" =>
            /\ RecordSet(pagedVector[s]) = origin[s]
            /\ Len(Entries(pagedVector[s])) = Cardinality(origin[s])
            /\ lower(pagedVector[s]).text = <<"BINARY(", Cardinality(origin[s]), ")">>

C14_Witness ==
    /\ lastCombine = <<"A", "B">>
    /\ aggStatus["A"] = "live"
    /\ origin["A"] = lifted["A"] \cup lifted["B"] \cup lifted["C"]
    /\ origin["B"] = lifted["B"] \cup lifted["C"]
    /\ \A s \in AggregationStates : lifted[s] # {}
    /\ lowered["A"] # NoResult

C16_LowerReadOnly ==
    /\ [](\A s \in AggregationStates :
              (aggStatus[s] = "live" /\ lowered[s] # NoResult)
                  => lower(pagedVector[s]) = lowered[s])
    /\ [][\A s \in AggregationStates :
              (lowered'[s] # lowered[s] /\ lowered'[s] # NoResult)
                  => /\ pagedVector' = pagedVector
                     /\ aggStatus' = aggStatus
                     /\ aggStatus[s] = "live"]_vars

C16_Witness ==
    \E s \in AggregationStates :
        /\ aggStatus[s] = "destroyed"
        /\ lowered[s] # NoResult
        /\ lowered[s].reads >= 2

\* C17 as claimed: every group holding at least one point yields the value
\* BINARY(56), whether it holds one point or two.
C17_AlwaysBinary56 ==
    \A s \in AggregationStates :
        (aggStatus[s] = "live" /\ lowered[s] # NoResult /\ origin[s] # {})
            => lowered[s].text = <<"BINARY(", 5, 6, ")">>

(***************************************************************************)
(* Properties of the TCPSource.                                            *)
(***************************************************************************)
\* C18: in server mode, a fillTupleBuffer call that read end-of-file while it
\* had received no byte, and that then returned without an accept or read
\* error, did not return 0: the connections it found closed are closed on its
\* side too, the listening socket is open, it is connected to a client it
\* accepted afterwards, and the bytes it returns are exactly the bytes that
\* client sent, from the first one, in order.
C18_ReconnectOnEof ==
    /\ (mode = "server" /\ callEof # {} /\ tcpPc \in {"eof_accept", "read"})
           => listenfd = "open"
    /\ (/\ mode = "server"
        /\ callEof # {}
        /\ tcpPc = "idle"
        /\ lastReturn # NoReturn
        /\ thrown = "none"
        /\ sockfd # NoFd
        /\ peer[sockfd] # "reset")
           => /\ lastReturn.n >= 1
              /\ \A p \in callEof : conn[p] = "closed"
              /\ sockfd \notin callEof
              /\ conn[sockfd] = "accepted"
              /\ listenfd = "open"
              /\ lastReturn.bytes = [i \in 1..lastReturn.n |-> <<sockfd, i>>]
              /\ lastReturn.n = rcvd[sockfd]

C18_Witness ==
    /\ mode = "server"
    /\ tcpPc = "idle"
    /\ callEof # {}
    /\ thrown = "none"
    /\ lastReturn.n = MaxPayload
    /\ sockfd # NoFd
    /\ lastReturn.bytes = [i \in 1..MaxPayload |-> <<sockfd, i>>]

(***************************************************************************)
(* Properties of the CSV replay generator.                                 *)
(***************************************************************************)
\* the step forwards the row at pos
ForwardsRow == csvPc = "pass" /\ pos <= Len(csvFile) /\ total_forwarded' = total_forwarded + 1

\* C19 as claimed: a forwarded row whose timestamp parses to a number lies
\* strictly above every number forwarded before it in its scope: over all rows
\* in scope 'global', over the rows of its key in scope 'per-key' with key
\* columns configured.
C19_StrictlyIncreasing ==
    [][ForwardsRow =>
          LET row == csvFile[pos]
              ts == ParseTs(row.ts)
          IN  (row # EmptyRow /\ ts.kind = "num") =>
                  /\ order_scope = "global" => ~TsLeq(ts, fwdMax)
                  /\ (order_scope = "per-key" /\ last_ts_by_key.dict)
                         => ~TsLeq(ts, fwdMaxByKey[row.key])]_vars

\* C20 as claimed: with loop set, every further pass over the file forwards
\* the rows the first pass forwarded.
C20_EveryPassResends ==
    (csvPc = "pass" /\ loop /\ passes >= 2 /\ pos > Len(csvFile))
        => passFwd = firstFwd

\* the step is one turn of "for row in reader" on a non-empty row whose
\* timestamp cannot be determined
UndeterminedRow ==
    /\ csvPc = "pass"
    /\ pos <= Len(csvFile)
    /\ pos' = pos + 1
    /\ csvFile[pos] # EmptyRow
    /\ csvFile[pos].ts \in {"absent", "x"}

ForwardedUnchanged ==
    /\ total_forwarded' = total_forwarded + 1
    /\ pos \in passFwd'
    /\ last_ts_global' = last_ts_global
    /\ last_ts_by_key' = last_ts_by_key

\* C21 (as the code has it): a non-empty row whose timestamp cannot be
\* determined is forwarded and leaves last_ts_global and last_ts_by_key as
\* they were, unless it is the first row of a pass and skip_header is set:
\* that row is skipped as the header and is not sent.
C21_UndeterminedForwarded ==
    [][UndeterminedRow =>
          IF first /\ skip_header
          THEN /\ total_forwarded' = total_forwarded
               /\ last_ts_global' = last_ts_global
               /\ last_ts_by_key' = last_ts_by_key
          ELSE ForwardedUnchanged]_vars

C21_Witness ==
    /\ csvPc = "pass"
    /\ last_ts_global.kind = "num"
    /\ \E i \in passFwd :
           /\ i > 1
           /\ i = pos - 1
           /\ csvFile[i].ts \in {"x", "absent"}
           /\ ParseTs(csvFile[i - 1].ts) = last_ts_global

\* C21 as claimed: such a row is always forwarded
C21_AlwaysForwarded ==
    [][UndeterminedRow => ForwardedUnchanged]_vars

(***************************************************************************)
(* Properties of the MEOS physical functions and of the preconditions.     *)
(***************************************************************************)
AtReferencePoint == fnArgs.lon = Num(RefLon) /\ fnArgs.lat = Num(RefLat)

\* C22: for a record with numeric coordinates TEMPORAL_INTERSECTS returns true
\* exactly when the record's point is the reference point (-73.9857, 40.7484)
\* and the call did not raise; it returns false when the call raised
C22_TrueExactlyAtReference ==
    (fnPc = "returned" /\ fnArgs.lon.kind = "num" /\ fnArgs.lat.kind = "num")
        => /\ fnRaised => fnResult = FALSE
           /\ ~fnRaised => (fnResult <=> AtReferencePoint)

ValidChildCount(name, n) ==
    CASE name = "TemporalAtStBox" -> n \in {4, 5}
      [] name = "TemporalIntersectsGeometry" -> n \in {4, 6}
      [] name = "TemporalIntersects" -> n = 3
      [] OTHER -> TRUE

C24_RoutineOnlyWhenStarted ==
    \A w \in Threads :
        wpc[w] = "routine" => (stage = "started" /\ compiledPipelineFunction = "routine")

(***************************************************************************)
(* Properties of one SequencePhysicalOperator::open call.                  *)
(***************************************************************************)
\* what one step does to the open call of thread t
OpenCallStep(t) ==
    \* the first buffer is the one getNextBuffer hands out; with none the call
    \* returns and nothing is processed
    /\ (pc[t] = "idle" /\ pc'[t] # "idle") =>
          LET r == getNextBuffer(sub'[t])
          IN IF r.out # None /\ r.signal # "collision"
             THEN pc'[t] = "scanOpen" /\ cur'[t] = r.out /\ released' = released
             ELSE pc'[t] = "ret" /\ cur'[t] = None /\ released' = released
    \* the scan child is opened on the buffer handed out, once
    /\ (pc[t] = "scanOpen" /\ pc'[t] # "scanOpen") =>
          /\ pc'[t] = "scanClose"
          /\ released' = Append(released, cur[t])
          /\ cur'[t] = cur[t]
          /\ nextSeq' = nextSeq
    \* then closed on it; markBufferAsDone has not been called yet
    /\ (pc[t] = "scanClose" /\ pc'[t] # "scanClose") =>
          /\ pc'[t] = "mark"
          /\ released' = released
          /\ cur'[t] = cur[t]
          /\ nextSeq' = nextSeq
    \* markBufferAsDone is called once on the buffer just closed; the loop goes
    \* on with the buffer it hands out and ends when it hands out none
    /\ (pc[t] = "mark" /\ pc'[t] # "mark") =>
          LET r == markBufferAsDone(cur[t])
          IN /\ nextSeq' = r.next
             /\ released' = released
             /\ IF r.out # None
                THEN pc'[t] = "scanOpen" /\ cur'[t] = r.out
                ELSE pc'[t] = "ret" /\ cur'[t] = None
    /\ (pc[t] = "ret" /\ pc'[t] # "ret") => pc'[t] = "idle" /\ released' = released

\* C25: within one open call the scan child is opened and then closed once on
\* each buffer the handler hands out, first the one from getNextBuffer, then
\* each one markBufferAsDone returns, in this order; markBufferAsDone is called
\* once per processed buffer, after its scan close, and at no other point; open
\* returns as soon as no buffer is handed out and processes nothing when
\* getNextBuffer hands out none
C25_OpenLoop ==
    [][/\ \A t \in Threads : OpenCallStep(t)
       /\ nextSeq' # nextSeq => \E t \in Threads : pc[t] = "mark" /\ pc'[t] # "mark"
       /\ released' # released =>
             \/ \E t \in Threads : pc[t] = "scanOpen" /\ pc'[t] = "scanClose"
             \/ hstate' = "stopped"]_vars

\* an open call that has processed its own buffer and then a held one
C25_Witness ==
    \E t \in Threads :
        /\ pc[t] = "ret"
        /\ Len(released) >= 2
        /\ released[Len(released) - 1] = sub[t]
        /\ released[Len(released)].seq = sub[t].seq + 1
        /\ nextSeq = sub[t].seq + 2

(***************************************************************************)
(* Properties of the MetricsRegistry under concurrent callers.             *)
(***************************************************************************)
RECURSIVE SumOf(_, _)
\* the sum of f[t] over the threads of S
SumOf(S, f) ==
    IF S = {} THEN 0
    ELSE LET t == CHOOSE x \in S : TRUE IN f[t] + SumOf(S \ {t}, f)

Counting == {t \in MetricThreads : mpc[t] \in {"inc_lock", "inc_write"}}
Observing == {t \in MetricThreads : mpc[t] \in {"obs_lock", "obs_count", "hist_lock", "hist_observe"}}
CountedNotObserved == {t \in MetricThreads : mpc[t] \in {"hist_lock", "hist_observe"}}

\* C26: whatever the interleaving of the execute calls of several threads,
\* pipe_<pid>_in_total is the sum of the tuple counts of the buffers executed,
\* less those whose increment is still under way: once the calls have returned
\* the two are equal, no increment is lost or applied twice
C26_NoLostIncrement ==
    regCounters["pipe_in_total"] + SumOf(Counting, marg) = tuplesExecuted

C26_Witness ==
    /\ mpc["m1"] = "inc_write"
    /\ mpc["m2"] = "inc_lock"
    /\ marg["m1"] = 1
    /\ marg["m2"] = 1
    /\ regCounters["pipe_in_total"] = 1
    /\ tuplesExecuted = MaxCalls

\* C27: in every map snapshot returns, p50 <= p95 <= p99, also when
\* observeLatencyMs runs on other threads during the snapshot
C27_PercentilesOrdered ==
    \A t \in MetricThreads :
        out[t].taken => (out[t].p50 <= out[t].p95 /\ out[t].p95 <= out[t].p99)

\* C28: the histogram's total never exceeds latency_count; when no
\* observeLatencyMs call is in progress the two are equal and latency_sum_ms is
\* the sum of the values of the completed calls; during a call latency_sum_ms
\* is ahead by the values counted and not yet in the histogram
C28_TotalWithinCount ==
    /\ total <= regCounters["latency_count"]
    /\ regCounters["latency_count"] = total + Cardinality(CountedNotObserved)
    /\ regCounters["latency_sum_ms"] = valuesObserved + SumOf(CountedNotObserved, marg)
    /\ Observing = {} =>
          /\ total = regCounters["latency_count"]
          /\ regCounters["latency_sum_ms"] = valuesObserved

C28_Witness ==
    /\ mpc["m1"] = "hist_lock"
    /\ marg["m1"] = 100
    /\ mpc["m2"] = "obs_lock"
    /\ total = 1
    /\ regCounters["latency_count"] = 2
    /\ regCounters["latency_sum_ms"] = 200

\* a thread inside a call that waits for a mutex another thread holds
Blocked(t) ==
    \/ mpc[t] \in {"inc_lock", "obs_lock", "snap_lock"} /\ mtx # NoOwner
    \/ mpc[t] \in {"hist_lock", "p50_lock", "p95_lock", "p99_lock"} /\ hmtx # NoOwner

NoDeadlock ==
    (\E t \in MetricThreads : mpc[t] # "idle")
        => \E t \in MetricThreads : mpc[t] # "idle" /\ ~Blocked(t)

\* the histogram mutex is taken inside the registry mutex or alone, never the
\* other way round
LockOrder ==
    \A t \in MetricThreads :
        hmtx = t => mpc[t] \notin {"inc_lock", "obs_lock", "snap_lock"}

\* C29: no interleaving of incCounter, observeLatencyMs and snapshot calls
\* deadlocks: some thread inside a call can always take a step, no thread
\* waits for the registry mutex while it holds the histogram mutex, and every
\* call that was made returns
C29_NoDeadlock ==
    /\ [](NoDeadlock /\ LockOrder)
    /\ \A t \in MetricThreads : (mpc[t] # "idle") ~> (mpc[t] = "idle")

\* a snapshot holds both mutexes while the two other threads wait, one for each
C29_Witness ==
    /\ mtx = "m1"
    /\ hmtx = "m1"
    /\ mpc["m1"] = "p95"
    /\ mpc["m2"] = "hist_lock"
    /\ mpc["m3"] = "snap_lock"

(***************************************************************************)
(* Termination of fillTupleBuffer.                                         *)
(***************************************************************************)
\* inside fillTupleBuffer, the peer has closed and what it sent and this call
\* has received or can still receive is at least one byte and less than the
\* buffer holds
PartialThenClosed ==
    /\ tcpPc = "read"
    /\ sockfd # NoFd
    /\ peer[sockfd] = "closed"
    /\ numReceivedBytes + Available(sockfd) >= 1
    /\ numReceivedBytes + Available(sockfd) < RawTBSize

\* C30: once the peer has sent at least one byte, fewer than the buffer's
\* capacity, and has closed the connection, fillTupleBuffer returns in the
\* end, whatever the flush interval, flushIntervalInMs = 0 included
C30_FillReturns == PartialThenClosed ~> (tcpPc = "idle")

(***************************************************************************)
(* C31: a failed read ends fillTupleBuffer with 0 bytes and no error       *)
(***************************************************************************)
\* a step of fillBuffer's loop in which read returned -1: the peer has reset the
\* connection, the pass consumed no byte and the loop was left
ReadFailedStep ==
    /\ tcpPc = "read"
    /\ sockfd # NoFd
    /\ peer[sockfd] = "reset"
    /\ rcvd' = rcvd
    /\ tcpPc' # tcpPc

\* C31: when read returns -1 during fillTupleBuffer, the call returns 0 received bytes
\* and raises no error, whatever had been received during the call and in either mode,
\* and the connection is neither closed nor replaced by another
C31_FailedReadReturnsZero ==
    [][ReadFailedStep =>
           /\ tcpPc' = "idle"
           /\ lastReturn'.n = 0
           /\ thrown' = "none"
           /\ sockfd' = sockfd
           /\ conn' = conn
           /\ listenfd' = listenfd
           /\ acceptedConnections' = acceptedConnections]_vars

\* a call that had received a byte before its read failed has returned 0 (server mode)
C31_Witness ==
    /\ mode = "server"
    /\ tcpPc = "idle"
    /\ sockfd # NoFd
    /\ peer[sockfd] = "reset"
    /\ conn[sockfd] = "accepted"
    /\ tupleBuffer # <<>>
    /\ lastReturn = [n |-> 0, bytes |-> <<>>]
    /\ thrown = "none"


(***************************************************************************)
(* C32: a failed accept closes the listening socket                        *)
(***************************************************************************)
AcceptStates == {"open_accept", "entry_accept", "eof_accept"}

\* a step of awaitClientConnection in which accept failed with an error other than EINTR
AcceptFailedStep ==
    /\ tcpPc \in AcceptStates
    /\ sockfd' = NoFd
    /\ errno' \in AcceptErrors \ {EINTR}
    /\ errno' # errno \/ tcpPc' # tcpPc

\* a step of awaitClientConnection in which accept was interrupted
AcceptInterruptedStep ==
    /\ tcpPc \in AcceptStates
    /\ errno' = EINTR
    /\ errno' # errno

\* the source in server mode without listening socket and without connection, its
\* last call having failed with the exception e
NoListener(e) ==
    /\ mode = "server"
    /\ tcpPc = "idle"
    /\ listenfd = "closed"
    /\ sockfd = NoFd
    /\ peerEndpoint = NoEndpoint
    /\ thrown \in e

\* open is called
OpenStep == tcpPc = "idle" /\ tcpPc' \in {"open_accept", "open_connect"}

AcceptFailure(e) ==
    /\ AcceptFailedStep => NoListener(e)'
    /\ NoListener(e) /\ ~OpenStep => NoListener(e)'
    /\ AcceptInterruptedStep =>
           UNCHANGED <<mode, flushIntervalInMs, tcpPc, listenfd, sockfd, acceptedConnections,
                       numReceivedBytes, tupleBuffer, lastReturn, callEof, thrown, conn, peer,
                       sent, rcvd, peerEndpoint>>

\* C32: in server mode, when accept fails with an error other than EINTR the listening
\* socket is closed, the peer endpoint cleared and CannotOpenSource thrown; from then on
\* every fillTupleBuffer call fails with CannotOpenSource until open is called again; an
\* accept interrupted by EINTR is retried and changes nothing in the source
C32_AcceptFailure == [][AcceptFailure({"CannotOpenSource"})]_vars


(***************************************************************************)
(* C33: MEOS is initialized once                                           *)
(***************************************************************************)
\* C33: under any interleaving of concurrent ensureMeosInitialized calls, meos_initialize
\* is called and cleanupMeos registered at most once, and once a call has returned both
\* have happened exactly once and meos_initialize has completed
C33_InitializedOnce ==
    /\ initializeCalls <= 1
    /\ atexitCalls <= 1
    /\ \A t \in WrapThreads :
           ensured[t] => /\ meosLibrary = "initialized"
                         /\ meos_initialized
                         /\ initializeCalls = 1
                         /\ atexitCalls = 1

\* two threads have each called ensureMeosInitialized once and both calls have returned
C33_Witness ==
    \E t, u \in WrapThreads :
        /\ t # u
        /\ ensured[t]
        /\ ensured[u]
        /\ wrapCalls = 2
        /\ wrapPc[t] = "idle"
        /\ wrapPc[u] = "idle"

(***************************************************************************)
(* C34: the parsing functions of MEOS are called one at a time             *)
(***************************************************************************)
InsideParse == {t \in WrapThreads : wrapPc[t] = "parsing"}

\* C34: no two threads are inside a MEOS parsing function at the same time, and every
\* parsing call of the wrapper is made while holding meos_parse_mutex
C34_ParsingExclusive ==
    /\ Cardinality(InsideParse) <= 1
    /\ \A t \in WrapThreads : wrapPc[t] \in {"parse_call", "parsing"} => meos_parse_mutex = t


(***************************************************************************)
(* C35: what a buffer adds to the sink's counters                          *)
(***************************************************************************)
\* the increase of a counter in a step
Added(name) == sinkCounters'[name] - sinkCounters[name]

\* a step that is an execute call
SinkCallStep == sinkCalls' = sinkCalls + 1

UsableTimestamp(ts) == ts # INVALID_VALUE /\ ts # INITIAL_VALUE

\* C35: with a non-negative clock reading, a non-empty buffer increments exactly one of
\* latency_missing_count (creation timestamp invalid or initial) and latency_count
\* (otherwise); an empty buffer increments neither and writes nothing to the output;
\* sink_out_total grows by the buffer's tuple count in all cases
C35_OneLatencyCounter ==
    [][SinkCallStep =>
          LET b == lastBuffer'
          IN /\ Added("sink_out_total") = b.tuples
             /\ lastNow' >= 0 =>
                   IF b.tuples = 0
                   THEN /\ Added("latency_missing_count") = 0
                        /\ Added("latency_count") = 0
                        /\ outputStream' = outputStream
                   ELSE IF UsableTimestamp(b.creationTimestamp)
                   THEN /\ Added("latency_missing_count") = 0
                        /\ Added("latency_count") = 1
                   ELSE /\ Added("latency_missing_count") = 1
                        /\ Added("latency_count") = 0]_vars

\* an empty buffer, a buffer without timestamp and a buffer with one have been executed
C35_Witness ==
    /\ sinkCalls = 3
    /\ sinkCounters["latency_missing_count"] = 1
    /\ sinkCounters["latency_count"] = 1
    /\ Len(outputStream) = 2
    /\ lastBuffer.tuples = 0
    /\ sinkCounters["sink_out_total"] = 2

(***************************************************************************)
(* C36: the latency recorded                                               *)
(***************************************************************************)
\* the latency of the claim: now - creationTimestamp, 0 when the timestamp lies after now
ClaimedLatency(now, ts) == IF now >= ts THEN now - ts ELSE 0

\* a latency is recorded for the buffer b at the clock reading now
LatencyRecorded(b, now) == b.tuples > 0 /\ UsableTimestamp(b.creationTimestamp) /\ now >= 0

\* C36: the latency recorded for a buffer is now - creationTimestamp when
\* now >= creationTimestamp and 0 otherwise, never a wrapped-around value, and
\* latency_future_count is incremented exactly when the creation timestamp lies after now
C36_LatencyOfEveryBuffer ==
    [][SinkCallStep =>
          LET b == lastBuffer'
              now == lastNow'
          IN /\ observed' # NoLatency => observed' = ClaimedLatency(now, b.creationTimestamp)
             /\ Added("latency_future_count") = 1
                   <=> (UsableTimestamp(b.creationTimestamp) /\ b.creationTimestamp > now)
             /\ Added("latency_future_count") \in {0, 1}]_vars

\* C36 (as the code has it): for a non-empty buffer with a usable creation timestamp and a
\* non-negative clock reading the latency recorded is now - creationTimestamp when
\* now >= creationTimestamp and 0 otherwise, and latency_future_count is incremented exactly
\* when the creation timestamp lies after now; for any other buffer no latency is recorded
\* and latency_future_count is left alone
C36_LatencySaturated ==
    [][SinkCallStep =>
          LET b == lastBuffer'
              now == lastNow'
          IN IF LatencyRecorded(b, now)
             THEN /\ observed' = ClaimedLatency(now, b.creationTimestamp)
                  /\ Added("latency_sum_ms") = ClaimedLatency(now, b.creationTimestamp)
                  /\ Added("latency_future_count") =
                        (IF b.creationTimestamp > now THEN 1 ELSE 0)
             ELSE /\ observed' = NoLatency
                  /\ Added("latency_sum_ms") = 0
                  /\ Added("latency_future_count") = 0]_vars

\* a buffer stamped after the clock reading has been recorded with latency 0
C36_Witness ==
    /\ sinkCalls >= 1
    /\ lastBuffer.tuples > 0
    /\ UsableTimestamp(lastBuffer.creationTimestamp)
    /\ lastNow >= 0
    /\ lastBuffer.creationTimestamp > lastNow
    /\ observed = 0
    /\ sinkCounters["latency_future_count"] = 1


====
